---------------------------- MODULE Spec2Model ----------------------------
(***************************************************************************)
(* Model of the running pace calculator: the calculator functions          *)
(* (calculator.ts), and the application shell that owns the tuple, the     *)
(* derivation selector and the unit system (main.ts, with and without      *)
(* track-lap mode).                                                        *)
(*                                                                         *)
(* Numbers.  The program computes with JavaScript numbers.  The model      *)
(* computes exactly: a number is a record [n, d, km, mi, lap] that stands  *)
(* for                                                                     *)
(*     (n / d) * KM_TO_MILES^km * MILES_TO_KM^mi * TRACK_MILES^lap         *)
(* with n/d in lowest terms and d > 0.  The three constants of the program *)
(* are 621371/10^6, 1609344/10^6 and 248548/10^6; 621371 is prime, 1609344 *)
(* has the prime factor 127 and 248548 the prime factor 62137, so as long  *)
(* as no n or d is a multiple of one of these primes the representation of *)
(* a value is unique and record equality is equality of values             *)
(* (NumWellFormed states the condition).  Keeping the constants as         *)
(* exponents keeps every integer within TLC's 32 bits.  d = 0 encodes the  *)
(* non-finite results of JavaScript: n = 0 is NaN, n = 1 / -1 is +/-       *)
(* Infinity.  IEEE-754 rounding is not modelled.                           *)
(***************************************************************************)
EXTENDS Integers, Sequences, FiniteSets, TLC

----------------------------------------------------------------------------
(* Bounds of the model *)

\* numerators of the field values the recalculate drivers draw: -1..MaxNum
MaxNum == 2
\* denominators of those field values: 1..MaxDen
MaxDen == 2
\* applications of recalculate the recalculate driver chains
MaxApplications == 2
\* conversions the conversion driver chains
MaxConvertSteps == 2
\* accepted field edits in one run of the application
MaxEdits == 2
\* unit-system conversions in one run of the application
MaxConversions == 2

----------------------------------------------------------------------------
(* Exact arithmetic *)

Abs(i) == IF i < 0 THEN -i ELSE i

Sign(i) == IF i < 0 THEN -1 ELSE IF i > 0 THEN 1 ELSE 0

RECURSIVE GCD(_, _)
GCD(x, y) == IF y = 0 THEN x ELSE GCD(y, x % y)

\* the number (n / d) * KM_TO_MILES^km * MILES_TO_KM^mi * TRACK_MILES^lap in
\* canonical form
Norm(n, d, km, mi, lap) ==
  IF d = 0 THEN [n |-> Sign(n), d |-> 0, km |-> 0, mi |-> 0, lap |-> 0]
  ELSE IF n = 0 THEN [n |-> 0, d |-> 1, km |-> 0, mi |-> 0, lap |-> 0]
  ELSE LET g == GCD(Abs(n), Abs(d))
           s == Sign(d)
       IN  [n |-> s * (n \div g), d |-> s * (d \div g),
            km |-> km, mi |-> mi, lap |-> lap]

Rat(n, d) == Norm(n, d, 0, 0, 0)

Int2Num(i) == Rat(i, 1)

Zero == Rat(0, 1)

NaN == Norm(0, 0, 0, 0, 0)

isNaN(x) == x.d = 0 /\ x.n = 0

IsFinite(x) == x.d > 0

\* x > 0, x <= 0, x >= 0, x < 0 as JavaScript evaluates them (false on NaN)
Gt0(x) == x.n > 0
Le0(x) == x.n <= 0 /\ ~isNaN(x)
Ge0(x) == x.n >= 0 /\ ~isNaN(x)
Lt0(x) == x.n < 0

Mul(x, y) ==
  IF x.d = 0 \/ y.d = 0 THEN Norm(x.n * y.n, 0, 0, 0, 0)
  ELSE LET g1 == GCD(Abs(x.n), y.d)
           g2 == GCD(Abs(y.n), x.d)
       IN  Norm((x.n \div g1) * (y.n \div g2), (x.d \div g2) * (y.d \div g1),
                x.km + y.km, x.mi + y.mi, x.lap + y.lap)

\* 1 / y; 1 / 0 is Infinity, 1 / Infinity is 0, 1 / NaN is NaN
Inv(y) ==
  IF isNaN(y) THEN NaN
  ELSE IF y.d = 0 THEN Zero
  ELSE IF y.n = 0 THEN Norm(1, 0, 0, 0, 0)
  ELSE Norm(Sign(y.n) * y.d, Abs(y.n), -y.km, -y.mi, -y.lap)

Div(x, y) == Mul(x, Inv(y))

\* x + y, for numbers that carry the same powers of the three constants (the
\* program only adds numbers it has just parsed)
Add(x, y) ==
  IF isNaN(x) \/ isNaN(y) THEN NaN
  ELSE IF x.d = 0 /\ y.d = 0 THEN (IF x.n = y.n THEN x ELSE NaN)
  ELSE IF x.d = 0 THEN x
  ELSE IF y.d = 0 THEN y
  ELSE Norm(x.n * y.d + y.n * x.d, x.d * y.d, x.km, x.mi, x.lap)

\* the representation of x is the only one of its value
NumWellFormed(x) ==
  /\ \A p \in {127, 62137, 621371} :
       /\ x.n % p # 0 \/ x.n = 0
       /\ x.d % p # 0 \/ x.d = 0
  /\ (x.d = 0 \/ x.n = 0) => (x.km = 0 /\ x.mi = 0 /\ x.lap = 0)

----------------------------------------------------------------------------
(* calculator.ts *)

CalculatedFields == {"pace-speed", "distance", "time"}
UnitSystems == {"metric", "imperial"}
Fields == {"pace", "speed", "distance", "time"}

\* export const KM_TO_MILES = 0.621371
KM_TO_MILES == Norm(1, 1, 1, 0, 0)
\* export const MILES_TO_KM = 1.609344
MILES_TO_KM == Norm(1, 1, 0, 1, 0)

\* convertDistance multiplying by KM_TO_MILES in both directions
convertDistanceOneConstant(distance, from, to) ==
  IF from = to THEN distance
  ELSE IF from = "metric" /\ to = "imperial" THEN Mul(distance, KM_TO_MILES)
  ELSE IF from = "imperial" /\ to = "metric" THEN Mul(distance, KM_TO_MILES)
  ELSE distance

convertDistance(distance, from, to) ==
  IF from = to THEN distance
  ELSE IF from = "metric" /\ to = "imperial" THEN Mul(distance, KM_TO_MILES)
  ELSE IF from = "imperial" /\ to = "metric" THEN Mul(distance, MILES_TO_KM)
  ELSE distance

\* convertSpeed dividing as convertPace does
convertSpeedDividing(speed, from, to) ==
  IF from = to THEN speed
  ELSE IF from = "metric" /\ to = "imperial" THEN Div(speed, KM_TO_MILES)
  ELSE IF from = "imperial" /\ to = "metric" THEN Div(speed, MILES_TO_KM)
  ELSE speed

convertSpeed(speed, from, to) ==
  IF from = to THEN speed
  ELSE IF from = "metric" /\ to = "imperial" THEN Mul(speed, KM_TO_MILES)
  ELSE IF from = "imperial" /\ to = "metric" THEN Mul(speed, MILES_TO_KM)
  ELSE speed

\* convertPace multiplying as convertDistance does
convertPaceMultiplying(pace, from, to) ==
  IF from = to THEN pace
  ELSE IF from = "metric" /\ to = "imperial" THEN Mul(pace, KM_TO_MILES)
  ELSE IF from = "imperial" /\ to = "metric" THEN Mul(pace, MILES_TO_KM)
  ELSE pace

convertPace(pace, from, to) ==
  IF from = to THEN pace
  ELSE IF from = "metric" /\ to = "imperial" THEN Div(pace, KM_TO_MILES)
  ELSE IF from = "imperial" /\ to = "metric" THEN Div(pace, MILES_TO_KM)
  ELSE pace

\* what one evaluation yields: the value returned and the divisors of the
\* divisions evaluated on the way
Const(v) == [val |-> v, divs |-> {}]
Quot(x, y) == [val |-> Div(x, y), divs |-> {y}]

\* paceToSpeed with the numerator 3600
paceToSpeedEvalPerHour(pace) ==
  IF Le0(pace) THEN Const(Zero) ELSE Quot(Int2Num(3600), pace)

\* paceToSpeed with the guard pace < 0
paceToSpeedEvalStrict(pace) ==
  IF Lt0(pace) THEN Const(Zero) ELSE Quot(Int2Num(60), pace)

paceToSpeedEval(pace) ==
  IF Le0(pace) THEN Const(Zero) ELSE Quot(Int2Num(60), pace)

paceToSpeed(pace) == paceToSpeedEval(pace).val

\* speedToPace with the guard speed < 0
speedToPaceEvalStrict(speed) ==
  IF Lt0(speed) THEN Const(Zero) ELSE Quot(Int2Num(60), speed)

speedToPaceEval(speed) ==
  IF Le0(speed) THEN Const(Zero) ELSE Quot(Int2Num(60), speed)

speedToPace(speed) == speedToPaceEval(speed).val

calculateTime(pace, distance) == Mul(pace, distance)

\* calculateDistance with the operands of the division swapped
calculateDistanceEvalSwapped(pace, time) ==
  IF Le0(pace) THEN Const(Zero) ELSE Quot(pace, time)

calculateDistanceEval(pace, time) ==
  IF Le0(pace) THEN Const(Zero) ELSE Quot(time, pace)

calculateDistance(pace, time) == calculateDistanceEval(pace, time).val

\* calculatePaceFromTimeDistance with the operands of the division swapped
calculatePaceFromTimeDistanceEvalSwapped(time, distance) ==
  IF Le0(distance) THEN Const(Zero) ELSE Quot(distance, time)

calculatePaceFromTimeDistanceEval(time, distance) ==
  IF Le0(distance) THEN Const(Zero) ELSE Quot(time, distance)

calculatePaceFromTimeDistance(time, distance) ==
  calculatePaceFromTimeDistanceEval(time, distance).val

\* step 1 of recalculate without the branch for an edited speed
recalculateSyncPaceOnly(data, changedField) ==
  IF changedField = "pace"
    THEN [data EXCEPT !.speed = paceToSpeed(data.pace)]
  ELSE data

\* step 1 of recalculate syncing the speed unless the speed was edited
recalculateSyncAlways(data, changedField) ==
  IF changedField = "speed"
    THEN [data EXCEPT !.pace = speedToPace(data.speed)]
  ELSE [data EXCEPT !.speed = paceToSpeed(data.pace)]

\* step 1 of recalculate: keep pace and speed in sync with the changed one
recalculateSync(data, changedField) ==
  IF changedField = "pace"
    THEN [data EXCEPT !.speed = paceToSpeed(data.pace)]
  ELSE IF changedField = "speed"
    THEN [data EXCEPT !.pace = speedToPace(data.speed)]
  ELSE data

\* recalculate whose pace-speed branch computes the speed before the pace
recalculateStaleSpeed(data, calculatedField, changedField) ==
  LET result == recalculateSync(data, changedField)
  IN  CASE calculatedField = "pace-speed" ->
             IF Gt0(result.distance) /\ Gt0(result.time)
               THEN [result EXCEPT
                       !.speed = paceToSpeed(result.pace),
                       !.pace = calculatePaceFromTimeDistance(result.time,
                                                              result.distance)]
               ELSE result
        [] calculatedField = "distance" ->
             IF Gt0(result.pace) /\ Gt0(result.time)
               THEN [result EXCEPT
                       !.distance = calculateDistance(result.pace, result.time)]
               ELSE result
        [] calculatedField = "time" ->
             IF Gt0(result.pace) /\ Gt0(result.distance)
               THEN [result EXCEPT
                       !.time = calculateTime(result.pace, result.distance)]
               ELSE result
        [] OTHER -> result

recalculate(data, calculatedField, changedField) ==
  LET result == recalculateSync(data, changedField)
  IN  CASE calculatedField = "pace-speed" ->
             IF Gt0(result.distance) /\ Gt0(result.time)
               THEN LET pace == calculatePaceFromTimeDistance(result.time,
                                                              result.distance)
                    IN  [result EXCEPT !.pace = pace,
                                       !.speed = paceToSpeed(pace)]
               ELSE result
        [] calculatedField = "distance" ->
             IF Gt0(result.pace) /\ Gt0(result.time)
               THEN [result EXCEPT
                       !.distance = calculateDistance(result.pace, result.time)]
               ELSE result
        [] calculatedField = "time" ->
             IF Gt0(result.pace) /\ Gt0(result.distance)
               THEN [result EXCEPT
                       !.time = calculateTime(result.pace, result.distance)]
               ELSE result
        [] OTHER -> result



\* the divisors of every division one call of recalculate evaluates
recalculateDivisors(data, calculatedField, changedField) ==
  LET result == recalculateSync(data, changedField)
      syncDivs ==
        IF changedField = "pace" THEN paceToSpeedEval(data.pace).divs
        ELSE IF changedField = "speed" THEN speedToPaceEval(data.speed).divs
        ELSE {}
      branchDivs ==
        CASE calculatedField = "pace-speed" ->
               IF Gt0(result.distance) /\ Gt0(result.time)
                 THEN LET pace == calculatePaceFromTimeDistanceEval(
                                     result.time, result.distance)
                      IN  pace.divs \cup paceToSpeedEval(pace.val).divs
                 ELSE {}
          [] calculatedField = "distance" ->
               IF Gt0(result.pace) /\ Gt0(result.time)
                 THEN calculateDistanceEval(result.pace, result.time).divs
                 ELSE {}
          [] OTHER -> {}
  IN  syncDivs \cup branchDivs

----------------------------------------------------------------------------
(* Texts are sequences of one-character strings *)

DigitChars == <<"0", "1", "2", "3", "4", "5", "6", "7", "8", "9">>

IsDigit(c) == \E i \in 1..10 : DigitChars[i] = c

DigitVal(c) == (CHOOSE i \in 1..10 : DigitChars[i] = c) - 1

\* the longest prefix of s made of digits
RECURSIVE DigitPrefix(_)
DigitPrefix(s) ==
  IF s = <<>> \/ ~IsDigit(Head(s)) THEN <<>>
  ELSE <<Head(s)>> \o DigitPrefix(Tail(s))

\* the integer a sequence of digits denotes (0 for the empty sequence)
RECURSIVE DigitsToInt(_)
DigitsToInt(s) ==
  IF s = <<>> THEN 0
  ELSE 10 * DigitsToInt(SubSeq(s, 1, Len(s) - 1)) + DigitVal(s[Len(s)])

RECURSIVE Pow10(_)
Pow10(k) == IF k = 0 THEN 1 ELSE 10 * Pow10(k - 1)

\* String.prototype.split(sep) for a one-character separator
RECURSIVE Split(_, _)
Split(s, sep) ==
  IF \A i \in 1..Len(s) : s[i] # sep THEN <<s>>
  ELSE LET i == CHOOSE j \in 1..Len(s) :
                  s[j] = sep /\ \A k \in 1..(j - 1) : s[k] # sep
       IN  <<SubSeq(s, 1, i - 1)>> \o Split(SubSeq(s, i + 1, Len(s)), sep)

\* parseInt(s) on texts over digits, '-', '.', ':', ',' and letters: an
\* optional sign, then the longest run of digits; NaN without a digit
parseInt(s) ==
  LET neg  == s # <<>> /\ Head(s) = "-"
      rest == IF s # <<>> /\ Head(s) \in {"-", "+"} THEN Tail(s) ELSE s
      ds   == DigitPrefix(rest)
  IN  IF ds = <<>> THEN NaN
      ELSE Int2Num(IF neg THEN -DigitsToInt(ds) ELSE DigitsToInt(ds))

\* parseFloat(s) on the same texts: an optional sign, digits, optionally a
\* period and more digits; NaN when neither run has a digit
parseFloat(s) ==
  LET neg   == s # <<>> /\ Head(s) = "-"
      rest  == IF s # <<>> /\ Head(s) \in {"-", "+"} THEN Tail(s) ELSE s
      ip    == DigitPrefix(rest)
      after == SubSeq(rest, Len(ip) + 1, Len(rest))
      fp    == IF after # <<>> /\ Head(after) = "."
                 THEN DigitPrefix(Tail(after)) ELSE <<>>
      mag   == Rat(DigitsToInt(ip) * Pow10(Len(fp)) + DigitsToInt(fp),
                   Pow10(Len(fp)))
  IN  IF ip = <<>> /\ fp = <<>> THEN NaN
      ELSE IF neg THEN Mul(Int2Num(-1), mag) ELSE mag

\* parsePace accepting 60 seconds
parsePaceUpTo60(paceString) ==
  LET parts == Split(paceString, ":")
  IN  IF Len(parts) # 2 THEN Zero
      ELSE LET minutes == parseInt(parts[1])
               seconds == parseInt(parts[2])
           IN  IF \/ isNaN(minutes) \/ isNaN(seconds)
                  \/ Gt0(Add(seconds, Int2Num(-60))) \/ Lt0(seconds)
                 THEN Zero
                 ELSE Add(minutes, Div(seconds, Int2Num(60)))

parsePace(paceString) ==
  LET parts == Split(paceString, ":")
  IN  IF Len(parts) # 2 THEN Zero
      ELSE LET minutes == parseInt(parts[1])
               seconds == parseInt(parts[2])
           IN  IF \/ isNaN(minutes) \/ isNaN(seconds)
                  \/ Ge0(Add(seconds, Int2Num(-60))) \/ Lt0(seconds)
                 THEN Zero
                 ELSE Add(minutes, Div(seconds, Int2Num(60)))

\* parseTime adding the hours as minutes
parseTimeHoursAsMinutes(timeString) ==
  LET parts == Split(timeString, ":")
  IN  IF Len(parts) = 2
        THEN LET minutes == parseInt(parts[1])
                 seconds == parseInt(parts[2])
             IN  IF isNaN(minutes) \/ isNaN(seconds) THEN Zero
                 ELSE Add(minutes, Div(seconds, Int2Num(60)))
      ELSE IF Len(parts) = 3
        THEN LET hours   == parseInt(parts[1])
                 minutes == parseInt(parts[2])
                 seconds == parseInt(parts[3])
             IN  IF isNaN(hours) \/ isNaN(minutes) \/ isNaN(seconds) THEN Zero
                 ELSE Add(Add(hours, minutes), Div(seconds, Int2Num(60)))
      ELSE Zero

parseTime(timeString) ==
  LET parts == Split(timeString, ":")
  IN  IF Len(parts) = 2
        THEN LET minutes == parseInt(parts[1])
                 seconds == parseInt(parts[2])
             IN  IF isNaN(minutes) \/ isNaN(seconds) THEN Zero
                 ELSE Add(minutes, Div(seconds, Int2Num(60)))
      ELSE IF Len(parts) = 3
        THEN LET hours   == parseInt(parts[1])
                 minutes == parseInt(parts[2])
                 seconds == parseInt(parts[3])
             IN  IF isNaN(hours) \/ isNaN(minutes) \/ isNaN(seconds) THEN Zero
                 ELSE Add(Add(Mul(hours, Int2Num(60)), minutes),
                          Div(seconds, Int2Num(60)))
      ELSE Zero

----------------------------------------------------------------------------
(* inputHandler.ts: what the two controllers do to the text of a field *)

\* value.replace(/[^\d]/g, '')
OnlyDigits(value) == SelectSeq(value, IsDigit)

\* numbers.padStart(width, '0')
RECURSIVE padStart(_, _)
padStart(numbers, width) ==
  IF Len(numbers) >= width THEN numbers
  ELSE padStart(<<"0">> \o numbers, width)

\* s.substring(from, to) for 0 <= from <= to
substring(s, from, to) ==
  SubSeq(s, from + 1, IF to < Len(s) THEN to ELSE Len(s))

\* formatNumbers without the padding
formatNumbersUnpadded(numbers, isTime) ==
  IF isTime
    THEN substring(numbers, 0, 2) \o <<":">> \o substring(numbers, 2, 4)
           \o <<":">> \o substring(numbers, 4, 6)
    ELSE substring(numbers, 0, 2) \o <<":">> \o substring(numbers, 2, 4)

\* SegmentedTimeInput.formatNumbers
formatNumbers(numbers, isTime) ==
  IF isTime
    THEN LET padded == padStart(numbers, 6)
         IN  substring(padded, 0, 2) \o <<":">> \o substring(padded, 2, 4)
               \o <<":">> \o substring(padded, 4, 6)
    ELSE LET padded == padStart(numbers, 4)
         IN  substring(padded, 0, 2) \o <<":">> \o substring(padded, 2, 4)

\* formatValue without the removal of the characters that are no digits
formatValueUnstripped(value, isTime) == formatNumbers(value, isTime)

\* SegmentedTimeInput.formatValue
formatValue(value, isTime) == formatNumbers(OnlyDigits(value), isTime)

\* the value of the field after SegmentedTimeInput.handleInput
SegmentedHandleInput(value, isTime) ==
  LET formatted == formatValue(value, isTime)
  IN  IF formatted # value THEN formatted ELSE value

\* value.replace(',', '.'): the first comma only
RECURSIVE ReplaceFirstComma(_)
ReplaceFirstComma(value) ==
  IF value = <<>> THEN <<>>
  ELSE IF Head(value) = "," THEN <<".">> \o Tail(value)
  ELSE <<Head(value)>> \o ReplaceFirstComma(Tail(value))

IsDigitOrPeriod(c) == IsDigit(c) \/ c = "."

\* parts.join('')
RECURSIVE Join(_)
Join(parts) == IF parts = <<>> THEN <<>> ELSE Head(parts) \o Join(Tail(parts))

\* the value of the field after NumericInput.handleInput
NumericHandleInput(value, maxDecimals) ==
  LET replaced   == ReplaceFirstComma(value)
      cleanValue == SelectSeq(replaced, IsDigitOrPeriod)
      parts      == Split(cleanValue, ".")
      single     == IF Len(parts) > 2
                      THEN parts[1] \o <<".">> \o Join(Tail(parts))
                      ELSE cleanValue
      limited    == IF Len(parts) = 2 /\ Len(parts[2]) > maxDecimals
                      THEN parts[1] \o <<".">>
                             \o substring(parts[2], 0, maxDecimals)
                      ELSE single
  IN  IF limited # value THEN limited ELSE value

----------------------------------------------------------------------------
(* calculator.ts: formatting, for numbers that carry no conversion         *)
(* constant (finite n / d)                                                 *)

\* Math.floor(x), Math.round(x) (the nearest integer, a half going up) and
\* Math.trunc(x), as integers
Floor(x) == x.n \div x.d
Round(x) == (2 * x.n + x.d) \div (2 * x.d)
Trunc(x) == IF x.n < 0 THEN -((-x.n) \div x.d) ELSE x.n \div x.d

\* x % m for an integer m > 0: the remainder has the sign of x
Remainder(x, m) == Add(x, Int2Num(-(m * Trunc(Div(x, Int2Num(m))))))

\* the decimal digits of an integer i >= 0
RECURSIVE Digits(_)
Digits(i) ==
  IF i < 10 THEN <<DigitChars[i + 1]>>
  ELSE Digits(i \div 10) \o <<DigitChars[(i % 10) + 1]>>

\* Number.prototype.toString of an integer
toString(i) == IF i < 0 THEN <<"-">> \o Digits(-i) ELSE Digits(i)

\* formatPace with the seconds in hundredths of a minute
formatPaceHundredths(minutes) ==
  LET wholeMinutes == Floor(minutes)
      seconds == Round(Mul(Add(minutes, Int2Num(-wholeMinutes)),
                           Int2Num(100)))
  IN  padStart(toString(wholeMinutes), 2) \o <<":">>
        \o padStart(toString(seconds), 2)

formatPace(minutes) ==
  LET wholeMinutes == Floor(minutes)
      seconds == Round(Mul(Add(minutes, Int2Num(-wholeMinutes)),
                           Int2Num(60)))
  IN  padStart(toString(wholeMinutes), 2) \o <<":">>
        \o padStart(toString(seconds), 2)

\* formatTime with the seconds rounded down
formatTimeFloorSeconds(minutes) ==
  LET hours == Floor(Div(minutes, Int2Num(60)))
      mins == Floor(Remainder(minutes, 60))
      secs == Floor(Mul(Remainder(minutes, 1), Int2Num(60)))
  IN  padStart(toString(hours), 2) \o <<":">>
        \o padStart(toString(mins), 2) \o <<":">>
        \o padStart(toString(secs), 2)

formatTime(minutes) ==
  LET hours == Floor(Div(minutes, Int2Num(60)))
      mins == Floor(Remainder(minutes, 60))
      secs == Round(Mul(Remainder(minutes, 1), Int2Num(60)))
  IN  padStart(toString(hours), 2) \o <<":">>
        \o padStart(toString(mins), 2) \o <<":">>
        \o padStart(toString(secs), 2)

----------------------------------------------------------------------------
(* State *)

VARIABLES
  data,             \* state.data: the tuple [pace, speed, distance, time]
  calculatedField,  \* state.calculatedField: the derivation selector
  unitSystem,       \* state.unitSystem
  isTrackLap,       \* state.isTrackLap
  imperialChecked,  \* elements.imperialToggle.checked
  trackLapChecked,  \* elements.trackLapToggle.checked
  lastEvent,        \* the event the last handler ran for, and its input
  edits,            \* accepted field edits so far
  conversions,      \* unit-system conversions so far
  ui,               \* the field rows and inputs as updateUI last left them
  listeners,        \* the listeners of the input event of each field
  rcIn,             \* recalculate driver: the tuple drawn
  rcSel,            \* recalculate driver: the selector drawn
  rcEdit,           \* recalculate driver: the edited field drawn
  rcOut,            \* recalculate driver: result of the applications so far
  rcApplied,        \* recalculate driver: number of applications so far
  cvIn,             \* conversion driver: the argument of the last conversion
  cvFn,             \* conversion driver: the function last applied
  cvFrom,           \* conversion driver: its from argument
  cvTo,             \* conversion driver: its to argument
  cvOut,            \* conversion driver: the value after the conversions
  cvSteps,          \* conversion driver: number of conversions so far
  dispatch,         \* the last input event dispatched to a field
  call,             \* function driver: the last call and its result
  input,            \* a text field and its controller: the element's state
  slider,           \* a DynamicSlider and its range input
  page              \* the texts of the four inputs, the focus, activeInput

appVars == <<data, calculatedField, unitSystem, isTrackLap, imperialChecked,
             trackLapChecked, lastEvent, edits, conversions, ui, listeners>>
rcVars == <<rcIn, rcSel, rcEdit, rcOut, rcApplied>>
cvVars == <<cvIn, cvFn, cvFrom, cvTo, cvOut, cvSteps>>
inVars == <<dispatch>>
fnVars == <<call>>
elVars == <<input>>
shVars == <<slider, page>>
driverVars == <<rcIn, rcSel, rcEdit, rcOut, rcApplied,
                cvIn, cvFn, cvFrom, cvTo, cvOut, cvSteps, dispatch, call,
                input, slider, page>>
vars == <<data, calculatedField, unitSystem, isTrackLap, imperialChecked,
          trackLapChecked, lastEvent, edits, conversions, ui, listeners,
          rcIn, rcSel, rcEdit, rcOut, rcApplied,
          cvIn, cvFn, cvFrom, cvTo, cvOut, cvSteps, dispatch, call, input,
          slider, page>>

Event(kind, field, checked) ==
  [kind |-> kind, field |-> field, checked |-> checked]

\* the listeners of the input event of a field, in the order of their
\* registration: the controller of the field and the listener of the
\* application
SegmentedTimeInput(isTime) ==
  [kind |-> "SegmentedTimeInput", isTime |-> isTime, maxDecimals |-> 0]
NumericInput(maxDecimals) ==
  [kind |-> "NumericInput", isTime |-> FALSE, maxDecimals |-> maxDecimals]
AppListener == [kind |-> "app", isTime |-> FALSE, maxDecimals |-> 0]

initializeTimeInputHandler(trackLap) ==
  IF trackLap THEN NumericInput(0) ELSE SegmentedTimeInput(TRUE)

\* initializeDOM: the controllers are constructed on the new elements
initializeDOM ==
  [pace |-> <<SegmentedTimeInput(FALSE)>>,
   time |-> <<initializeTimeInputHandler(FALSE)>>,
   speed |-> <<NumericInput(2)>>,
   distance |-> <<NumericInput(2)>>]

\* bindEvents registering the listeners of the application ahead of the
\* controllers
bindEventsAhead(registered) ==
  [field \in Fields |-> <<AppListener>> \o registered[field]]

\* bindEvents: the application adds its input listener to every field
bindEvents(registered) ==
  [field \in Fields |-> Append(registered[field], AppListener)]

\* reinitializeTimeInputHandler on the old element, which keeps the
\* listeners it has
reinitializeTimeInputHandlerNoClone(registered, trackLap) ==
  [registered EXCEPT
     !.time = registered.time
                \o Append(<<initializeTimeInputHandler(trackLap)>>,
                          AppListener)]

\* reinitializeTimeInputHandler: the time input is replaced by a clone, which
\* has no listeners, and gets the controller of the mode and the listener of
\* the application
reinitializeTimeInputHandler(registered, trackLap) ==
  [registered EXCEPT
     !.time = Append(<<initializeTimeInputHandler(trackLap)>>, AppListener)]

\* updateUI, the part that sets the calculation states: the rows that carry
\* the class calculated (the others carry input-field) and the inputs that
\* are disabled.  The distance is shown calculated and disabled in track-lap
\* mode; in main.ts the calc button of a row carries the class of the row.
updateUI(cf, trackLap) ==
  LET isCalculated(field) ==
        \/ cf = "pace-speed" /\ field \in {"pace", "speed"}
        \/ cf = field
      shown == { field \in Fields :
                   \/ trackLap /\ field = "distance"
                   \/ isCalculated(field) }
  IN  [calculated |-> shown, disabled |-> shown]

\* the state the constructor leaves
defaultData ==
  [pace |-> Int2Num(5), speed |-> Int2Num(12),
   distance |-> Int2Num(10), time |-> Int2Num(50)]

AppInit ==
  /\ data = defaultData
  /\ calculatedField = "distance"
  /\ unitSystem = "metric"
  /\ isTrackLap = FALSE
  /\ imperialChecked = FALSE
  /\ trackLapChecked = FALSE
  /\ lastEvent = Event("constructor", "none", FALSE)
  /\ edits = 0
  /\ conversions = 0
  /\ ui = updateUI("distance", FALSE)
  /\ listeners = bindEvents(initializeDOM)

RcIdle ==
  /\ rcIn = defaultData
  /\ rcSel = "distance"
  /\ rcEdit = "pace"
  /\ rcOut = defaultData
  /\ rcApplied = 0

CvIdle ==
  /\ cvIn = Zero
  /\ cvFn = "none"
  /\ cvFrom = "metric"
  /\ cvTo = "metric"
  /\ cvOut = Zero
  /\ cvSteps = 0

InIdle ==
  dispatch = [field |-> "none", controllers |-> <<>>, raw |-> <<>>,
              seen |-> <<>>, updates |-> 0]

NoCall == [fn |-> "none", args |-> <<>>]

FnIdle ==
  call = [fn |-> "none", args |-> <<>>, result |-> Zero, divs |-> {},
          of |-> NoCall]

NoController == [kind |-> "none", isTime |-> FALSE, maxDecimals |-> 0]

\* the element of a field: its controller, its text and selection, the
\* last event it received (key), whether the handler suppressed the event's
\* default action and how many input events it dispatched, and the digit
\* keys received since the focus when nothing else was received since; raw is
\* the text the browser had left in the field when its last event was an
\* input event
Element(controller, value, key) ==
  [controller |-> controller, value |-> value,
   selectionStart |-> Len(value), selectionEnd |-> Len(value),
   key |-> key, prevented |-> FALSE, notified |-> 0,
   fresh |-> FALSE, typed |-> <<>>, raw |-> <<>>]

ElIdle == input = Element(NoController, <<>>, "none")

\* no slider is constructed and no page is shown
ShIdle ==
  /\ slider = [config |-> <<"none", "none">>]
  /\ page = [focus |-> "none"]

----------------------------------------------------------------------------
(* The application (main.ts with track-lap mode) *)

\* updateUI: the input of a field is disabled when the field is calculated,
\* and the distance input is disabled in track-lap mode
inputDisabled(field, cf, trackLap) ==
  \/ trackLap /\ field = "distance"
  \/ cf = "pace-speed" /\ field \in {"pace", "speed"}
  \/ cf = field

\* updateUI: the distance row carries the class track-lap-hidden
trackLapHidden(field, trackLap) == trackLap /\ field = "distance"

updateField(d, cf, field, value) ==
  recalculate([d EXCEPT ![field] = value], cf, field)

parseTimeFromSeconds(secondsString) ==
  LET seconds == parseFloat(secondsString)
  IN  IF isNaN(seconds) \/ Le0(seconds) THEN Zero
      ELSE Div(seconds, Int2Num(60))

\* the track distance in metric: 0.4
TRACK_KM == Rat(2, 5)
\* the track distance in imperial: 0.248548
TRACK_MILES == Norm(1, 1, 0, 0, 1)

\* setTrackLapDistance with the metric lap in both unit systems
setTrackLapDistanceMetric(d, us) == [d EXCEPT !.distance = TRACK_KM]

setTrackLapDistance(d, us) ==
  LET trackDistance == IF us = "metric" THEN TRACK_KM ELSE TRACK_MILES
  IN  [d EXCEPT !.distance = trackDistance]

\* texts the input events carry (the value of the field when the listener of
\* the application runs)
PaceTexts ==
  { <<"0", "4", ":", "3", "0">>, <<"0", "0", ":", "0", "0">>,
    <<"0", "5", ":", "6", "0">> }
SpeedTexts ==
  { <<"1", "2", ".", "5">>, <<"0">>, <<".">> }
DistanceTexts ==
  { <<"8">>, <<"0", ".", "5">>, <<"0", ".", "0", "0">>, <<>> }
TimeTexts ==
  { <<"0", "1", ":", "3", "0", ":", "0", "0">>,
    <<"0", "0", ":", "0", "0", ":", "0", "0">> }
LapTimeTexts ==
  { <<"7", "2">>, <<"0">>, <<>> }

\* the parses of these texts, tabulated
parsePaceOf == [text \in PaceTexts |-> parsePace(text)]
parseFloatOf == [text \in SpeedTexts \cup DistanceTexts |-> parseFloat(text)]
parseTimeOf == [text \in TimeTexts |-> parseTime(text)]
parseTimeFromSecondsOf ==
  [text \in LapTimeTexts |-> parseTimeFromSeconds(text)]

\* the state after the listener of a field has parsed value from its text
Accept(field, value, ev) ==
  /\ edits < MaxEdits
  /\ data' = updateField(data, calculatedField, field, value)
  /\ edits' = edits + 1
  /\ lastEvent' = ev
  /\ ui' = updateUI(calculatedField, isTrackLap)
  /\ UNCHANGED <<calculatedField, unitSystem, isTrackLap, imperialChecked,
                 trackLapChecked, conversions, listeners>>

Ignore(ev) ==
  /\ lastEvent' = ev
  /\ UNCHANGED <<data, calculatedField, unitSystem, isTrackLap,
                 imperialChecked, trackLapChecked, edits, conversions, ui,
                 listeners>>

PaceInput(text) ==
  /\ ~inputDisabled("pace", calculatedField, isTrackLap)
  /\ LET pace == parsePaceOf[text]
         ev == Event("input", "pace", FALSE)
     IN  IF Gt0(pace) THEN Accept("pace", pace, ev) ELSE Ignore(ev)
  /\ UNCHANGED driverVars

\* the speed listener accepting every text that parses to a number
SpeedInputAnyNumber(text) ==
  /\ ~inputDisabled("speed", calculatedField, isTrackLap)
  /\ LET speed == parseFloatOf[text]
         ev == Event("input", "speed", FALSE)
     IN  IF ~isNaN(speed) THEN Accept("speed", speed, ev)
         ELSE Ignore(ev)
  /\ UNCHANGED driverVars

SpeedInput(text) ==
  /\ ~inputDisabled("speed", calculatedField, isTrackLap)
  /\ LET speed == parseFloatOf[text]
         ev == Event("input", "speed", FALSE)
     IN  IF Gt0(speed) /\ ~isNaN(speed) THEN Accept("speed", speed, ev)
         ELSE Ignore(ev)
  /\ UNCHANGED driverVars

DistanceInput(text) ==
  /\ ~inputDisabled("distance", calculatedField, isTrackLap)
  /\ LET distance == parseFloatOf[text]
         ev == Event("input", "distance", FALSE)
     IN  IF Gt0(distance) /\ ~isNaN(distance)
           THEN Accept("distance", distance, ev)
           ELSE Ignore(ev)
  /\ UNCHANGED driverVars

TimeInput(text) ==
  /\ ~inputDisabled("time", calculatedField, isTrackLap)
  /\ text \in (IF isTrackLap THEN LapTimeTexts ELSE TimeTexts)
  /\ LET time == IF isTrackLap THEN parseTimeFromSecondsOf[text]
                 ELSE parseTimeOf[text]
         ev == Event("input", "time", FALSE)
     IN  IF Gt0(time) THEN Accept("time", time, ev) ELSE Ignore(ev)
  /\ UNCHANGED driverVars

\* toggleCalculatedField without the mapping of pace and speed to their group
toggleCalculatedFieldUnmapped(field) == field

toggleCalculatedField(field) ==
  IF field = "pace" \/ field = "speed" THEN "pace-speed" ELSE field

\* a click on a field row, outside its input
RowClick(field) ==
  /\ ~trackLapHidden(field, isTrackLap)
  /\ calculatedField' = toggleCalculatedField(field)
  /\ ui' = updateUI(calculatedField', isTrackLap)
  /\ lastEvent' = Event("click", field, FALSE)
  /\ UNCHANGED <<data, unitSystem, isTrackLap, imperialChecked,
                 trackLapChecked, edits, conversions, listeners>>
  /\ UNCHANGED driverVars

\* toggleUnitSystem resetting the derivation selector to its default
ToggleUnitSystemResetSelector(checked) ==
  LET newUnitSystem == IF checked THEN "imperial" ELSE "metric"
      oldUnitSystem == unitSystem
      converted ==
        [pace |-> convertPace(data.pace, oldUnitSystem, newUnitSystem),
         speed |-> convertSpeed(data.speed, oldUnitSystem, newUnitSystem),
         distance |->
           convertDistance(data.distance, oldUnitSystem, newUnitSystem),
         time |-> data.time]
      selector == IF isTrackLap THEN "pace-speed" ELSE "distance"
  IN  /\ imperialChecked' = checked
      /\ lastEvent' = Event("change", "imperial-toggle", checked)
      /\ IF newUnitSystem # oldUnitSystem
           THEN /\ conversions < MaxConversions
                /\ conversions' = conversions + 1
                /\ unitSystem' = newUnitSystem
                /\ calculatedField' = selector
                /\ ui' = updateUI(selector, isTrackLap)
                /\ data' = IF isTrackLap
                             THEN setTrackLapDistance(converted, newUnitSystem)
                             ELSE converted
           ELSE UNCHANGED <<data, unitSystem, conversions, ui, calculatedField>>
      /\ UNCHANGED <<isTrackLap, trackLapChecked, edits, listeners>>
      /\ UNCHANGED driverVars

\* a change event of the imperial checkbox, which is left at checked
ToggleUnitSystem(checked) ==
  LET newUnitSystem == IF checked THEN "imperial" ELSE "metric"
      oldUnitSystem == unitSystem
      converted ==
        [pace |-> convertPace(data.pace, oldUnitSystem, newUnitSystem),
         speed |-> convertSpeed(data.speed, oldUnitSystem, newUnitSystem),
         distance |->
           convertDistance(data.distance, oldUnitSystem, newUnitSystem),
         time |-> data.time]
  IN  /\ imperialChecked' = checked
      /\ lastEvent' = Event("change", "imperial-toggle", checked)
      /\ IF newUnitSystem # oldUnitSystem
           THEN /\ conversions < MaxConversions
                /\ conversions' = conversions + 1
                /\ unitSystem' = newUnitSystem
                /\ ui' = updateUI(calculatedField, isTrackLap)
                /\ data' = IF isTrackLap
                             THEN setTrackLapDistance(converted, newUnitSystem)
                             ELSE converted
           ELSE UNCHANGED <<data, unitSystem, conversions, ui>>
      /\ UNCHANGED <<calculatedField, isTrackLap, trackLapChecked, edits,
                     listeners>>
      /\ UNCHANGED driverVars

\* toggleTrackLap keeping the time and deriving the pace from the lap
ToggleTrackLapKeepTime(checked) ==
  /\ trackLapChecked' = checked
  /\ isTrackLap' = checked
  /\ lastEvent' = Event("change", "track-lap-toggle", checked)
  /\ IF checked
       THEN LET lap == setTrackLapDistance(data, unitSystem)
                pace == calculatePaceFromTimeDistance(lap.time, lap.distance)
            IN  /\ calculatedField' = IF calculatedField = "distance"
                                        THEN "pace-speed" ELSE calculatedField
                /\ data' = [lap EXCEPT !.pace = pace,
                                       !.speed = paceToSpeed(pace)]
       ELSE UNCHANGED <<data, calculatedField>>
  /\ listeners' = reinitializeTimeInputHandler(listeners, checked)
  /\ ui' = updateUI(calculatedField', checked)
  /\ UNCHANGED <<unitSystem, imperialChecked, edits, conversions>>
  /\ UNCHANGED driverVars

\* a change event of the track-lap checkbox, which is left at checked
ToggleTrackLap(checked) ==
  /\ trackLapChecked' = checked
  /\ isTrackLap' = checked
  /\ lastEvent' = Event("change", "track-lap-toggle", checked)
  /\ IF checked
       THEN LET currentPace == data.pace
                currentSpeed == data.speed
                lap == setTrackLapDistance(data, unitSystem)
            IN  /\ calculatedField' = IF calculatedField = "distance"
                                        THEN "pace-speed" ELSE calculatedField
                /\ data' = [lap EXCEPT !.pace = currentPace,
                                       !.speed = currentSpeed,
                                       !.time = Mul(currentPace, lap.distance)]
       ELSE UNCHANGED <<data, calculatedField>>
  /\ listeners' = reinitializeTimeInputHandler(listeners, checked)
  /\ ui' = updateUI(calculatedField', checked)
  /\ UNCHANGED <<unitSystem, imperialChecked, edits, conversions>>
  /\ UNCHANGED driverVars

Init == AppInit /\ RcIdle /\ CvIdle /\ InIdle /\ FnIdle /\ ElIdle /\ ShIdle

Next ==
  \/ \E text \in PaceTexts : PaceInput(text)
  \/ \E text \in SpeedTexts : SpeedInput(text)
  \/ \E text \in DistanceTexts : DistanceInput(text)
  \/ \E text \in TimeTexts \cup LapTimeTexts : TimeInput(text)
  \/ \E field \in Fields : RowClick(field)
  \/ \E checked \in BOOLEAN : ToggleUnitSystem(checked)
  \/ \E checked \in BOOLEAN : ToggleTrackLap(checked)

Spec == Init /\ [][Next]_vars

TypeOK ==
  /\ \A f \in Fields : NumWellFormed(data[f]) /\ IsFinite(data[f])
  /\ calculatedField \in CalculatedFields
  /\ unitSystem \in UnitSystems
  /\ isTrackLap \in BOOLEAN

----------------------------------------------------------------------------
(* The application without track-lap mode (src/main.ts) *)

MainTimeInput(text) ==
  /\ ~inputDisabled("time", calculatedField, FALSE)
  /\ LET time == parseTimeOf[text]
         ev == Event("input", "time", FALSE)
     IN  IF Gt0(time) THEN Accept("time", time, ev) ELSE Ignore(ev)
  /\ UNCHANGED driverVars

\* a click on the calc button of a field
MainCalcClick(field) ==
  /\ calculatedField' = toggleCalculatedField(field)
  /\ ui' = updateUI(calculatedField', isTrackLap)
  /\ lastEvent' = Event("click", field, FALSE)
  /\ UNCHANGED <<data, unitSystem, isTrackLap, imperialChecked,
                 trackLapChecked, edits, conversions, listeners>>
  /\ UNCHANGED driverVars

\* toggleUnitSystem leaving the distance unconverted
MainToggleUnitSystemKeepDistance(checked) ==
  LET newUnitSystem == IF checked THEN "imperial" ELSE "metric"
      oldUnitSystem == unitSystem
  IN  /\ imperialChecked' = checked
      /\ lastEvent' = Event("change", "imperial-toggle", checked)
      /\ IF newUnitSystem # oldUnitSystem
           THEN /\ conversions < MaxConversions
                /\ conversions' = conversions + 1
                /\ unitSystem' = newUnitSystem
                /\ ui' = updateUI(calculatedField, isTrackLap)
                /\ data' =
                     [pace |->
                        convertPace(data.pace, oldUnitSystem, newUnitSystem),
                      speed |->
                        convertSpeed(data.speed, oldUnitSystem, newUnitSystem),
                      distance |-> data.distance,
                      time |-> data.time]
           ELSE UNCHANGED <<data, unitSystem, conversions, ui>>
      /\ UNCHANGED <<calculatedField, isTrackLap, trackLapChecked, edits,
                     listeners>>
      /\ UNCHANGED driverVars

MainToggleUnitSystem(checked) ==
  LET newUnitSystem == IF checked THEN "imperial" ELSE "metric"
      oldUnitSystem == unitSystem
  IN  /\ imperialChecked' = checked
      /\ lastEvent' = Event("change", "imperial-toggle", checked)
      /\ IF newUnitSystem # oldUnitSystem
           THEN /\ conversions < MaxConversions
                /\ conversions' = conversions + 1
                /\ unitSystem' = newUnitSystem
                /\ ui' = updateUI(calculatedField, isTrackLap)
                /\ data' =
                     [pace |->
                        convertPace(data.pace, oldUnitSystem, newUnitSystem),
                      speed |->
                        convertSpeed(data.speed, oldUnitSystem, newUnitSystem),
                      distance |->
                        convertDistance(data.distance, oldUnitSystem,
                                        newUnitSystem),
                      time |-> data.time]
           ELSE UNCHANGED <<data, unitSystem, conversions, ui>>
      /\ UNCHANGED <<calculatedField, isTrackLap, trackLapChecked, edits,
                     listeners>>
      /\ UNCHANGED driverVars

NextMain ==
  \/ \E text \in PaceTexts : PaceInput(text)
  \/ \E text \in SpeedTexts : SpeedInput(text)
  \/ \E text \in DistanceTexts : DistanceInput(text)
  \/ \E text \in TimeTexts : MainTimeInput(text)
  \/ \E field \in Fields : MainCalcClick(field)
  \/ \E checked \in BOOLEAN : MainToggleUnitSystem(checked)

SpecMain == Init /\ [][NextMain]_vars

----------------------------------------------------------------------------
(* Driver of recalculate: a tuple, a selector and an edited field are      *)
(* drawn, and recalculate is applied to the tuple and then to its result.  *)

GridValues == { Rat(n, d) : n \in (-1)..MaxNum, d \in 1..MaxDen }

Tuple(pace, speed, distance, time) ==
  [pace |-> pace, speed |-> speed, distance |-> distance, time |-> time]

\* the tuples the tests of recalculate use
ScenarioTuples ==
  { Tuple(Int2Num(5), Int2Num(12), Int2Num(8), Int2Num(50)),
    Tuple(Int2Num(5), Int2Num(12), Int2Num(10), Int2Num(60)),
    Tuple(Int2Num(6), Int2Num(12), Int2Num(10), Int2Num(60)),
    Tuple(Int2Num(5), Int2Num(10), Int2Num(10), Int2Num(60)),
    Tuple(Int2Num(6), Int2Num(12), Int2Num(10), Int2Num(50)),
    Tuple(Int2Num(5), Int2Num(12), Int2Num(10), Int2Num(50)),
    Tuple(Int2Num(6), Int2Num(10), Int2Num(10), Int2Num(60)) }

Tuples ==
  [pace : GridValues, speed : GridValues, distance : GridValues,
   time : GridValues] \cup ScenarioTuples

RecalcInit ==
  /\ AppInit
  /\ CvIdle
  /\ InIdle
  /\ FnIdle
  /\ ElIdle
  /\ ShIdle
  /\ rcIn \in Tuples
  /\ rcSel \in CalculatedFields
  /\ rcEdit \in Fields
  /\ rcOut = rcIn
  /\ rcApplied = 0

ApplyRecalculate ==
  /\ rcApplied < MaxApplications
  /\ rcOut' = recalculate(rcOut, rcSel, rcEdit)
  /\ rcApplied' = rcApplied + 1
  /\ UNCHANGED <<rcIn, rcSel, rcEdit>>
  /\ UNCHANGED appVars
  /\ UNCHANGED cvVars
  /\ UNCHANGED inVars
  /\ UNCHANGED fnVars
  /\ UNCHANGED <<elVars, shVars>>

RecalcNext == ApplyRecalculate

SpecRecalc == RecalcInit /\ [][RecalcNext]_vars

----------------------------------------------------------------------------
(* Driver of the unit conversions: a value is drawn and converted, and the *)
(* result converted again.                                                 *)

ConvertFns == {"convertDistance", "convertSpeed", "convertPace"}

ApplyConvert(fn, x, from, to) ==
  CASE fn = "convertDistance" -> convertDistance(x, from, to)
    [] fn = "convertSpeed" -> convertSpeed(x, from, to)
    [] fn = "convertPace" -> convertPace(x, from, to)

ConvertInit ==
  /\ AppInit
  /\ RcIdle
  /\ InIdle
  /\ FnIdle
  /\ ElIdle
  /\ ShIdle
  /\ cvOut \in GridValues \cup {Int2Num(5), Int2Num(10), Int2Num(12)}
  /\ cvIn = cvOut
  /\ cvFn = "none"
  /\ cvFrom = "metric"
  /\ cvTo = "metric"
  /\ cvSteps = 0

Convert(fn, from, to) ==
  /\ cvSteps < MaxConvertSteps
  /\ cvIn' = cvOut
  /\ cvFn' = fn
  /\ cvFrom' = from
  /\ cvTo' = to
  /\ cvOut' = ApplyConvert(fn, cvOut, from, to)
  /\ cvSteps' = cvSteps + 1
  /\ UNCHANGED appVars
  /\ UNCHANGED rcVars
  /\ UNCHANGED inVars
  /\ UNCHANGED fnVars
  /\ UNCHANGED <<elVars, shVars>>

ConvertNext ==
  \E fn \in ConvertFns, from \in UnitSystems, to \in UnitSystems :
    Convert(fn, from, to)

SpecConvert == ConvertInit /\ [][ConvertNext]_vars

----------------------------------------------------------------------------
(* Properties of recalculate (checked under SpecRecalc) *)

Sixty == Int2Num(60)

\* pace and speed as step 1 of recalculate leaves them, stated from the
\* description of the step: the sibling of an edited pace or speed is 60
\* over the edited one when that is > 0, and 0 otherwise
PaceAfterSync(t, e) ==
  IF e = "speed" THEN (IF Gt0(t.speed) THEN Div(Sixty, t.speed) ELSE Zero)
  ELSE t.pace

SpeedAfterSync(t, e) ==
  IF e = "pace" THEN (IF Gt0(t.pace) THEN Div(Sixty, t.pace) ELSE Zero)
  ELSE t.speed

TupleAfterSync(t, e) ==
  Tuple(PaceAfterSync(t, e), SpeedAfterSync(t, e), t.distance, t.time)

\* the guard of the selector s on the tuple t after the sync for e
SelectorGuard(t, s, e) ==
  CASE s = "pace-speed" -> Gt0(t.distance) /\ Gt0(t.time)
    [] s = "distance" -> Gt0(PaceAfterSync(t, e)) /\ Gt0(t.time)
    [] s = "time" -> Gt0(PaceAfterSync(t, e)) /\ Gt0(t.distance)

FirstResult == rcApplied = 1

\* C1: when the two inputs of the selector (after the pace/speed sync) are
\* both > 0, the tuple recalculate returns satisfies time = pace * distance,
\* and the selector's own field is the one recomputed: pace = time/distance
\* for pace-speed, distance = time/pace for distance, time = pace * distance
\* for time.
C1_Consistent ==
  (FirstResult /\ SelectorGuard(rcIn, rcSel, rcEdit)) =>
    /\ rcOut.time = Mul(rcOut.pace, rcOut.distance)
    /\ rcSel = "pace-speed" => rcOut.pace = Div(rcIn.time, rcIn.distance)
    /\ rcSel = "distance" =>
         rcOut.distance = Div(rcIn.time, PaceAfterSync(rcIn, rcEdit))
    /\ rcSel = "time" =>
         rcOut.time = Mul(PaceAfterSync(rcIn, rcEdit), rcIn.distance)

\* a distance recomputed from an edited speed, and different from the input
C1_Witness ==
  /\ FirstResult
  /\ rcSel = "distance"
  /\ rcEdit = "speed"
  /\ SelectorGuard(rcIn, rcSel, rcEdit)
  /\ rcOut.distance # rcIn.distance
  /\ rcOut.pace # rcIn.pace

NonNegative(t) == \A f \in Fields : Ge0(t[f])

\* C2: for a tuple with non-negative fields and an edited pace or speed,
\* the tuple returned has speed = 60/pace if pace > 0 and speed = 0 if
\* pace = 0, whatever the selector is.
C2_PaceSpeedInSync ==
  (FirstResult /\ NonNegative(rcIn) /\ rcEdit \in {"pace", "speed"}) =>
    /\ Gt0(rcOut.pace) => rcOut.speed = Div(Sixty, rcOut.pace)
    /\ rcOut.pace = Zero => rcOut.speed = Zero

\* an edited speed whose pace was out of sync, under a selector other than
\* pace-speed
C2_Witness ==
  /\ FirstResult
  /\ NonNegative(rcIn)
  /\ rcEdit = "speed"
  /\ rcSel = "time"
  /\ Gt0(rcIn.speed)
  /\ rcIn.pace # Div(Sixty, rcIn.speed)
  /\ rcOut.pace = Div(Sixty, rcIn.speed)

\* C3: with selector pace-speed, distance > 0 and time > 0, recalculate
\* returns pace = time/distance and speed = 60/pace with distance and time
\* unchanged, for every edited field; {pace 5, speed 12, distance 8, time 50}
\* edited at distance gives pace 6.25, speed 9.6, distance 8, time 50.
C3_PaceSpeedFromDistanceTime ==
  /\ (FirstResult /\ rcSel = "pace-speed"
        /\ Gt0(rcIn.distance) /\ Gt0(rcIn.time)) =>
       /\ rcOut.pace = Div(rcIn.time, rcIn.distance)
       /\ rcOut.speed = Div(Sixty, rcOut.pace)
       /\ rcOut.distance = rcIn.distance
       /\ rcOut.time = rcIn.time
  /\ (FirstResult /\ rcSel = "pace-speed" /\ rcEdit = "distance"
        /\ rcIn = Tuple(Int2Num(5), Int2Num(12), Int2Num(8), Int2Num(50))) =>
       rcOut = Tuple(Rat(625, 100), Rat(96, 10), Int2Num(8), Int2Num(50))

\* the scenario of the test, and the same selector with the pace edited
C3_Witness ==
  /\ FirstResult
  /\ rcSel = "pace-speed"
  /\ rcEdit = "distance"
  /\ rcIn = Tuple(Int2Num(5), Int2Num(12), Int2Num(8), Int2Num(50))
  /\ rcOut.pace = Rat(25, 4)

\* C4: recalculate leaves untouched fields at their input values: distance
\* unless the selector is distance, time unless the selector is time, and
\* pace and speed when the edited field is distance or time and the
\* selector is not pace-speed.
C4_Frame ==
  FirstResult =>
    /\ rcSel # "distance" => rcOut.distance = rcIn.distance
    /\ rcSel # "time" => rcOut.time = rcIn.time
    /\ (rcEdit \in {"distance", "time"} /\ rcSel # "pace-speed") =>
         (rcOut.pace = rcIn.pace /\ rcOut.speed = rcIn.speed)

\* the time is recomputed from an edited distance, and pace, speed and
\* distance are the input's although pace and speed are out of sync
C4_Witness ==
  /\ FirstResult
  /\ rcSel = "time"
  /\ rcEdit = "distance"
  /\ rcOut.time # rcIn.time
  /\ Gt0(rcIn.pace)
  /\ rcIn.speed # Div(Sixty, rcIn.pace)
  /\ rcOut.speed = rcIn.speed

\* speed = 60/pace and time = pace * distance, all four > 0
ConsistentTuple(t) ==
  /\ \A f \in Fields : Gt0(t[f])
  /\ t.speed = Div(Sixty, t.pace)
  /\ t.time = Mul(t.pace, t.distance)

\* C5: recalculate is idempotent: applied to its own result with the same
\* selector and edited field it returns that result; and applied to an
\* already-consistent tuple it changes nothing.
C5_Idempotent ==
  /\ rcApplied = 2 => rcOut = recalculate(rcIn, rcSel, rcEdit)
  /\ (FirstResult /\ ConsistentTuple(rcIn)) => rcOut = rcIn

\* the second application, to a result that differs from the tuple drawn
C5_Witness ==
  /\ rcApplied = 2
  /\ rcOut # rcIn
  /\ rcSel = "pace-speed"
  /\ rcEdit = "speed"
  /\ Gt0(rcIn.distance) /\ Gt0(rcIn.time) /\ Gt0(rcIn.speed)

\* the fields of the selector s
SelectorFields(s) == IF s = "pace-speed" THEN {"pace", "speed"} ELSE {s}

NoBadDivision ==
  \A y \in recalculateDivisors(rcIn, rcSel, rcEdit) : Gt0(y)

\* C6 as claimed: when the guard of the selector is false the fields of the
\* selector are returned unchanged, and no division by a value <= 0 is
\* evaluated.
C6_Original ==
  FirstResult =>
    /\ ~SelectorGuard(rcIn, rcSel, rcEdit) =>
         \A f \in SelectorFields(rcSel) : rcOut[f] = rcIn[f]
    /\ NoBadDivision

\* C6 as amended: when the guard of the selector is false, step 2 changes
\* nothing: the tuple returned is the tuple after the pace/speed sync of
\* step 1, so the fields of the selector are unchanged except the sibling of
\* an edited pace or speed; and no division by a value <= 0 is evaluated.
C6_GuardedNoOp ==
  FirstResult =>
    /\ ~SelectorGuard(rcIn, rcSel, rcEdit) =>
         /\ rcOut = TupleAfterSync(rcIn, rcEdit)
         /\ \A f \in SelectorFields(rcSel) :
              (rcSel # "pace-speed" \/ rcEdit \notin {"pace", "speed"}) =>
                rcOut[f] = rcIn[f]
    /\ NoBadDivision

\* selector pace-speed with distance 0: the pace edited is kept, its speed
\* synced, and the division by the distance not evaluated
C6_Witness ==
  /\ FirstResult
  /\ rcSel = "pace-speed"
  /\ rcEdit = "pace"
  /\ rcIn.distance = Zero
  /\ Gt0(rcIn.pace)
  /\ rcOut.speed # rcIn.speed
  /\ rcOut.pace = rcIn.pace
  /\ recalculateDivisors(rcIn, rcSel, rcEdit) = {rcIn.pace}

----------------------------------------------------------------------------
(* Properties of the application *)

\* C7: in every reachable state of the application pace > 0 and
\* speed = 60/pace.
C7_PaceSpeedInvariant ==
  /\ Gt0(data.pace)
  /\ data.speed = Div(Sixty, data.pace)

\* after edits, a conversion to imperial and with track-lap mode on
C7_Witness ==
  /\ edits = MaxEdits
  /\ conversions >= 1
  /\ unitSystem = "imperial"
  /\ isTrackLap
  /\ data.pace # defaultData.pace

\* the texts that do not parse to a value > 0
BadPaceTexts == { text \in PaceTexts : ~Gt0(parsePace(text)) }
BadSpeedTexts ==
  { text \in SpeedTexts : isNaN(parseFloat(text)) \/ Le0(parseFloat(text)) }
BadDistanceTexts ==
  { text \in DistanceTexts :
      isNaN(parseFloat(text)) \/ Le0(parseFloat(text)) }
BadTimeTexts == { text \in TimeTexts : ~Gt0(parseTime(text)) }
BadLapTimeTexts ==
  { text \in LapTimeTexts :
      isNaN(parseFloat(text)) \/ Le0(parseFloat(text)) }

\* a step in which the listener of a field runs on a text that does not
\* parse to a value > 0
IgnoredEdit ==
  /\ lastEvent'.kind = "input"
  /\ \/ \E text \in BadPaceTexts : PaceInput(text)
     \/ \E text \in BadSpeedTexts : SpeedInput(text)
     \/ \E text \in BadDistanceTexts : DistanceInput(text)
     \/ \E text \in (IF isTrackLap THEN BadLapTimeTexts ELSE BadTimeTexts) :
          TimeInput(text)

\* C8: an edit whose text does not parse to a value > 0 is ignored: the
\* tuple, the derivation selector and the unit system are left unchanged.
C8_IgnoredEdit ==
  [][IgnoredEdit => UNCHANGED <<data, calculatedField, unitSystem>>]_vars

\* an input event has been handled and no edit was ever accepted
C8_Witness ==
  /\ lastEvent.kind = "input"
  /\ edits = 0
  /\ data = defaultData

----------------------------------------------------------------------------
(* Properties of the unit conversions (checked under SpecConvert) *)

\* KM_TO_MILES and MILES_TO_KM in millionths
KM_TO_MILES_E6 == 621371
MILES_TO_KM_E6 == 1609344

\* floor(100 * x) for a number x that carries one conversion constant, to
\* the power 1 or -1, and has a small numerator; -1 for others
Centi(x) ==
  IF x.lap # 0 \/ x.d = 0 THEN -1
  ELSE IF x.km = 1 /\ x.mi = 0 THEN (x.n * KM_TO_MILES_E6) \div (x.d * 10000)
  ELSE IF x.km = 0 /\ x.mi = 1 THEN (x.n * MILES_TO_KM_E6) \div (x.d * 10000)
  ELSE IF x.km = -1 /\ x.mi = 0
    THEN (x.n * 100000000) \div (x.d * KM_TO_MILES_E6)
  ELSE IF x.km = 0 /\ x.mi = -1
    THEN (x.n * 100000000) \div (x.d * MILES_TO_KM_E6)
  ELSE -1

Converted(fn, x, from, to) ==
  cvSteps > 0 /\ cvFn = fn /\ cvIn = Int2Num(x) /\ cvFrom = from /\ cvTo = to

\* C10: convertDistance and convertSpeed multiply by 0.621371 for metric to
\* imperial and by 1.609344 for imperial to metric; convertPace divides by
\* the same constants in the same directions; all three return their input
\* when from = to.
C10_Conversions ==
  /\ cvSteps > 0 =>
       /\ cvFrom = cvTo => cvOut = cvIn
       /\ (cvFrom = "metric" /\ cvTo = "imperial") =>
            cvOut = IF cvFn = "convertPace" THEN Div(cvIn, KM_TO_MILES)
                    ELSE Mul(cvIn, KM_TO_MILES)
       /\ (cvFrom = "imperial" /\ cvTo = "metric") =>
            cvOut = IF cvFn = "convertPace" THEN Div(cvIn, MILES_TO_KM)
                    ELSE Mul(cvIn, MILES_TO_KM)
  /\ Converted("convertDistance", 10, "metric", "imperial") =>
       Centi(cvOut) = 621
  /\ Converted("convertDistance", 10, "imperial", "metric") =>
       Centi(cvOut) = 1609
  /\ Converted("convertSpeed", 12, "metric", "imperial") => Centi(cvOut) = 745
  /\ Converted("convertSpeed", 10, "imperial", "metric") => Centi(cvOut) = 1609
  /\ Converted("convertPace", 5, "metric", "imperial") => Centi(cvOut) = 804
  /\ Converted("convertPace", 5, "imperial", "metric") => Centi(cvOut) = 310

\* 5 min/km converted to 8.04.. min/mile
C10_Witness ==
  /\ Converted("convertPace", 5, "metric", "imperial")
  /\ Centi(cvOut) = 804
  /\ cvOut # cvIn

\* the product of two numbers below 10^7, as hi * 10^6 + lo with lo < 10^6
\* (long multiplication on three-digit limbs)
MulE6(a, b) ==
  LET aH == a \div 1000
      aL == a % 1000
      bH == b \div 1000
      bL == b % 1000
      mid == aH * bL + aL * bH
      low == (mid % 1000) * 1000 + aL * bL
  IN  [hi |-> aH * bH + (mid \div 1000) + (low \div 1000000),
       lo |-> low % 1000000]

\* the constant, in millionths, a power-one exponent of r stands for
FactorsE6(r) ==
  IF r.km = 1 /\ r.mi = 1 THEN <<KM_TO_MILES_E6, MILES_TO_KM_E6>>
  ELSE IF r.km = 2 /\ r.mi = 0 THEN <<KM_TO_MILES_E6, KM_TO_MILES_E6>>
  ELSE IF r.km = 0 /\ r.mi = 2 THEN <<MILES_TO_KM_E6, MILES_TO_KM_E6>>
  ELSE <<>>

\* |r - 1| < 5 * 10^-7, for r = 1 and for r the product of two of the
\* conversion constants
WithinHalfMillionth(r) ==
  \/ r = Int2Num(1)
  \/ /\ r.n = 1 /\ r.d = 1 /\ r.lap = 0
     /\ FactorsE6(r) # <<>>
     /\ LET p == MulE6(FactorsE6(r)[1], FactorsE6(r)[2])
        IN  \/ p.hi = 999999 /\ 1000000 - p.lo < 500000
            \/ p.hi = 1000000 /\ p.lo < 500000

\* a step of the driver that converts back to metric the distance the step
\* before converted from metric to imperial
DistanceRoundTrip ==
  /\ cvSteps = 1
  /\ cvFn = "convertDistance" /\ cvFrom = "metric" /\ cvTo = "imperial"
  /\ cvSteps' = 2
  /\ cvFn' = "convertDistance" /\ cvFrom' = "imperial" /\ cvTo' = "metric"

\* C11: a distance x converted from metric to imperial and back to metric is
\* x * KM_TO_MILES * MILES_TO_KM, and the product of the two constants is
\* within 5 * 10^-7 of 1: the result is x for x = 0, and otherwise its ratio
\* to x differs from 1 by less than 5 * 10^-7.
C11_DistanceRoundTrip ==
  [][DistanceRoundTrip =>
       /\ cvOut' = Mul(cvIn, Mul(KM_TO_MILES, MILES_TO_KM))
       /\ IF cvIn = Zero THEN cvOut' = Zero
          ELSE WithinHalfMillionth(Div(cvOut', cvIn))
       /\ WithinHalfMillionth(Mul(KM_TO_MILES, MILES_TO_KM))
       /\ MulE6(KM_TO_MILES_E6, MILES_TO_KM_E6) =
            [hi |-> 999999, lo |-> 690624]]_vars

\* 10 km converted to miles and back: close to 10 and not 10
C11_Witness ==
  /\ cvSteps = 2
  /\ cvFn = "convertDistance" /\ cvFrom = "imperial" /\ cvTo = "metric"
  /\ cvIn = Mul(Int2Num(10), KM_TO_MILES)
  /\ cvOut = Mul(Int2Num(10), Mul(KM_TO_MILES, MILES_TO_KM))
  /\ cvOut # Int2Num(10)
  /\ WithinHalfMillionth(Div(cvOut, Int2Num(10)))

----------------------------------------------------------------------------
(* Properties of the derivation selector (main.ts) *)

EditOrUnitToggle ==
  lastEvent'.kind = "input" \/ lastEvent'.field = "imperial-toggle"

\* C13 as claimed: no field edit and no unit-system toggle changes the
\* derivation selector; it changes only in a step that handles the user's
\* selection of a field to calculate.
C13_Original ==
  [][/\ EditOrUnitToggle => calculatedField' = calculatedField
     /\ calculatedField' # calculatedField => lastEvent'.kind = "click"]_vars

\* C13 as amended: no field edit and no unit-system toggle changes the
\* derivation selector; it changes only when the user selects a field to
\* calculate, or when track-lap mode is switched on while the selector is
\* distance, which makes it pace-speed.
C13_SelectorPersists ==
  [][/\ EditOrUnitToggle => calculatedField' = calculatedField
     /\ calculatedField' # calculatedField =>
          \/ /\ lastEvent'.kind = "click"
             /\ calculatedField' = toggleCalculatedField(lastEvent'.field)
          \/ /\ lastEvent' = Event("change", "track-lap-toggle", TRUE)
             /\ calculatedField = "distance"
             /\ calculatedField' = "pace-speed"]_vars

\* the selector time, selected by the user, is still in place after two
\* accepted edits and a unit conversion, the last event being an edit
C13_Witness ==
  /\ lastEvent.kind = "input"
  /\ edits = 2
  /\ conversions >= 1
  /\ calculatedField = "time"

----------------------------------------------------------------------------
(* The dispatch of an input event to a field: the listeners of the field   *)
(* run in the order of their registration, each on the text the one before *)
(* left in the field.                                                      *)

HandleInput(listener, value) ==
  CASE listener.kind = "SegmentedTimeInput" ->
         SegmentedHandleInput(value, listener.isTime)
    [] listener.kind = "NumericInput" ->
         NumericHandleInput(value, listener.maxDecimals)
    [] OTHER -> value

\* the text in the field when the listener of the application runs
RECURSIVE TextAtApp(_, _)
TextAtApp(registered, value) ==
  IF registered = <<>> \/ Head(registered).kind = "app" THEN value
  ELSE TextAtApp(Tail(registered), HandleInput(Head(registered), value))

IsController(listener) == listener.kind # "app"

\* what the listener of the application parses from the text of its field
ListenerParse(field, trackLap, text) ==
  CASE field = "pace" -> parsePace(text)
    [] field \in {"speed", "distance"} -> parseFloat(text)
    [] field = "time" ->
         IF trackLap THEN parseTimeFromSeconds(text) ELSE parseTime(text)

\* texts typed or pasted into the fields
RawPaceTexts == { <<"4", "3", "0">>, <<"4", ":", "3", "x">> }
RawNumberTexts == { <<"1", ",", "5">>, <<"1", "2", ".", "4", "5", "6">> }
RawTimeTexts ==
  { <<"1", "3", "0", "0", "0">>, <<"1", ":", "2", ":", "3", ":", "4">> }
RawLapTimeTexts == { <<"7", "2", ".", "5">>, <<"x">> }

RawTexts(field, trackLap) ==
  CASE field = "pace" -> RawPaceTexts
    [] field \in {"speed", "distance"} -> RawNumberTexts
    [] field = "time" -> IF trackLap THEN RawLapTimeTexts ELSE RawTimeTexts

Keys == {"5", "Delete"}

\* the text a controller's keydown handler leaves in a field whose text is
\* wholly selected (as focus leaves it): SegmentedTimeInput starts fresh on a
\* digit and resets to its default on Delete; NumericInput replaces the text
\* by a digit and lets Delete through, which empties the field
KeyDownText(controller, key) ==
  IF controller.kind = "SegmentedTimeInput"
    THEN IF key = "Delete"
           THEN (IF controller.isTime
                   THEN <<"0", "0", ":", "0", "0", ":", "0", "0">>
                   ELSE <<"0", "5", ":", "0", "0">>)
           ELSE formatNumbers(<<key>>, controller.isTime)
    ELSE IF key = "Delete" THEN <<>> ELSE <<key>>

\* the lists of listeners a field can have, the texts written to the fields
\* and the texts the listeners of the application find; the dispatches and
\* the parses of these, tabulated
ListenerLists ==
  { bindEvents(initializeDOM)[field] : field \in Fields }
    \cup { reinitializeTimeInputHandler(bindEvents(initializeDOM),
                                        trackLap).time : trackLap \in BOOLEAN }
WrittenTexts ==
  RawPaceTexts \cup RawNumberTexts \cup RawTimeTexts \cup RawLapTimeTexts
    \cup { KeyDownText(controller, key) :
             controller \in { SegmentedTimeInput(TRUE),
                              SegmentedTimeInput(FALSE), NumericInput(2),
                              NumericInput(0) },
             key \in Keys }
TextAtAppOf ==
  [registered \in ListenerLists |->
     [written \in WrittenTexts |-> TextAtApp(registered, written)]]
SeenTexts ==
  { TextAtAppOf[registered][written] :
      registered \in ListenerLists, written \in WrittenTexts }
ListenerParseOf ==
  [field \in Fields |->
     [trackLap \in BOOLEAN |->
        [text \in SeenTexts |-> ListenerParse(field, trackLap, text)]]]

IsAppListener(listener) == listener.kind = "app"

\* updateField called once by every listener of the application
RECURSIVE updateFieldBy(_, _, _, _, _)
updateFieldBy(count, d, cf, field, value) ==
  IF count = 0 THEN d
  ELSE updateFieldBy(count - 1, updateField(d, cf, field, value), cf, field,
                     value)

\* the listeners of the application finding a value > 0
AcceptBy(count, field, value, ev) ==
  /\ edits < MaxEdits
  /\ data' = updateFieldBy(count, data, calculatedField, field, value)
  /\ edits' = edits + count
  /\ lastEvent' = ev
  /\ ui' = updateUI(calculatedField, isTrackLap)
  /\ UNCHANGED <<calculatedField, unitSystem, isTrackLap, imperialChecked,
                 trackLapChecked, conversions, listeners>>

\* the input event of a field whose text is written: the listeners run, and
\* every listener of the application parses the text it finds
Dispatch(field, written) ==
  LET seen == TextAtAppOf[listeners[field]][written]
      value == ListenerParseOf[field][isTrackLap][seen]
      ev == Event("input", field, FALSE)
      count == Len(SelectSeq(listeners[field], IsAppListener))
      accepted == Gt0(value) /\ count > 0
  IN  /\ dispatch' = [field |-> field,
                      controllers |-> SelectSeq(listeners[field], IsController),
                      raw |-> written, seen |-> seen,
                      updates |-> IF accepted THEN count ELSE 0]
      /\ IF accepted THEN AcceptBy(count, field, value, ev) ELSE Ignore(ev)
      /\ UNCHANGED <<rcVars, cvVars, fnVars, elVars, shVars>>

\* a content change of an enabled field (typing that the controller lets
\* through, or a paste): the browser writes the text and dispatches
ContentChange(field, raw) ==
  /\ ~inputDisabled(field, calculatedField, isTrackLap)
  /\ raw \in RawTexts(field, isTrackLap)
  /\ Dispatch(field, raw)

\* a key pressed in an enabled field whose text is wholly selected: the
\* controller writes the text and the input event is dispatched
KeyDown(field, key) ==
  /\ ~inputDisabled(field, calculatedField, isTrackLap)
  /\ LET controllers == SelectSeq(listeners[field], IsController)
     IN  /\ controllers # <<>>
         /\ Dispatch(field, KeyDownText(controllers[1], key))

InputNext ==
  \/ \E field \in Fields :
       \E raw \in RawPaceTexts \cup RawNumberTexts \cup RawTimeTexts
                    \cup RawLapTimeTexts : ContentChange(field, raw)
  \/ \E field \in Fields, key \in Keys : KeyDown(field, key)
  \/ \E field \in Fields : RowClick(field)
  \/ \E checked \in BOOLEAN : ToggleTrackLap(checked)

SpecInput == Init /\ [][InputNext]_vars

\* two digits, a colon and two digits, and for the hour mask a colon and two
\* digits more
MaskShaped(text, isTime) ==
  /\ Len(text) = (IF isTime THEN 8 ELSE 5)
  /\ \A i \in 1..Len(text) :
       IF i \in {3, 6} THEN text[i] = ":" ELSE IsDigit(text[i])

\* digits and at most one period
Cleaned(text) ==
  /\ \A i \in 1..Len(text) : IsDigit(text[i]) \/ text[i] = "."
  /\ Cardinality({ i \in 1..Len(text) : text[i] = "." }) <= 1

\* C14: whenever the listener of the application has run for an input event
\* of a field, the field has one controller, and the text the listener
\* parsed is what that controller's handling leaves of the text written to
\* the field: mask-shaped for SegmentedTimeInput, digits with at most one
\* period for NumericInput; for the time field as well, whatever toggles of
\* track-lap mode came before.
C14_NormalizedAtApp ==
  dispatch.field # "none" =>
    /\ Len(dispatch.controllers) = 1
    /\ LET controller == dispatch.controllers[1]
       IN  /\ dispatch.seen = HandleInput(controller, dispatch.raw)
           /\ controller.kind = "SegmentedTimeInput" =>
                MaskShaped(dispatch.seen, controller.isTime)
           /\ controller.kind = "NumericInput" => Cleaned(dispatch.seen)
           /\ dispatch.field = "pace" => controller = SegmentedTimeInput(FALSE)
           /\ dispatch.field \in {"speed", "distance"} =>
                controller = NumericInput(2)
           /\ dispatch.field = "time" =>
                controller \in {SegmentedTimeInput(TRUE), NumericInput(0)}

\* a paste of 13000 into the time field after track-lap mode was switched on
\* and off again (the distance is still the lap): the listener of the
\* application parsed 01:30:00
C14_Witness ==
  /\ lastEvent = Event("input", "time", FALSE)
  /\ ~isTrackLap
  /\ data.distance = TRACK_KM
  /\ dispatch.field = "time"
  /\ dispatch.raw = <<"1", "3", "0", "0", "0">>
  /\ dispatch.seen = <<"0", "1", ":", "3", "0", ":", "0", "0">>
  /\ data.time = Int2Num(90)

----------------------------------------------------------------------------
(* Driver of the functions of the calculator: a function is called on      *)
(* drawn arguments, and then paceToSpeed or speedToPace on the result if   *)
(* the function was one of these two.                                      *)

UnaryFns == {"paceToSpeed", "speedToPace"}
BinaryFns ==
  {"calculateTime", "calculateDistance", "calculatePaceFromTimeDistance"}

\* the value and the divisors of one call
ApplyMath(fn, x, y) ==
  CASE fn = "paceToSpeed" -> paceToSpeedEval(x)
    [] fn = "speedToPace" -> speedToPaceEval(x)
    [] fn = "calculateTime" -> Const(calculateTime(x, y))
    [] fn = "calculateDistance" -> calculateDistanceEval(x, y)
    [] fn = "calculatePaceFromTimeDistance" ->
         calculatePaceFromTimeDistanceEval(x, y)

\* the arguments drawn: the grid, and the values the tests call with
MathValues ==
  GridValues \cup { Int2Num(i) : i \in {4, 5, 6, 8, 10, 12, 15, 30, 50} }
    \cup { Rat(9, 2) }

Called(fn, args, eval, of) ==
  call' = [fn |-> fn, args |-> args, result |-> eval.val,
           divs |-> eval.divs, of |-> of]

CallUnary(fn, x) ==
  /\ call.fn = "none"
  /\ Called(fn, <<x>>, ApplyMath(fn, x, Zero), NoCall)
  /\ UNCHANGED <<appVars, rcVars, cvVars, inVars, elVars, shVars>>

CallBinary(fn, x, y) ==
  /\ call.fn = "none"
  /\ Called(fn, <<x, y>>, ApplyMath(fn, x, y), NoCall)
  /\ UNCHANGED <<appVars, rcVars, cvVars, inVars, elVars, shVars>>

\* paceToSpeed or speedToPace called on the result of a call of the other
CallOnResult(fn) ==
  /\ call.fn \in UnaryFns
  /\ call.of = NoCall
  /\ Called(fn, <<call.result>>, ApplyMath(fn, call.result, Zero),
            [fn |-> call.fn, args |-> call.args])
  /\ UNCHANGED <<appVars, rcVars, cvVars, inVars, elVars, shVars>>

MathNext ==
  \/ \E fn \in UnaryFns, x \in MathValues : CallUnary(fn, x)
  \/ \E fn \in BinaryFns, x \in MathValues, y \in MathValues :
       CallBinary(fn, x, y)
  \/ \E fn \in UnaryFns : CallOnResult(fn)

SpecMath == Init /\ [][MathNext]_vars

\* the last call was fn(x, y)
CalledWith(fn, x, y) == call.fn = fn /\ call.args = <<Int2Num(x), Int2Num(y)>>

\* C15: paceToSpeed, speedToPace, calculateDistance and
\* calculatePaceFromTimeDistance return 0 when their divisor argument is <= 0
\* and the quotient 60/pace, 60/speed, time/pace, time/distance otherwise,
\* never dividing by a value <= 0; calculateTime returns pace * distance.
C15_TotalFunctions ==
  /\ call.fn = "paceToSpeed" =>
       call.result = IF Le0(call.args[1]) THEN Zero
                     ELSE Div(Sixty, call.args[1])
  /\ call.fn = "speedToPace" =>
       call.result = IF Le0(call.args[1]) THEN Zero
                     ELSE Div(Sixty, call.args[1])
  /\ call.fn = "calculateDistance" =>
       call.result = IF Le0(call.args[1]) THEN Zero
                     ELSE Div(call.args[2], call.args[1])
  /\ call.fn = "calculatePaceFromTimeDistance" =>
       call.result = IF Le0(call.args[2]) THEN Zero
                     ELSE Div(call.args[1], call.args[2])
  /\ call.fn = "calculateTime" =>
       call.result = Mul(call.args[1], call.args[2])
  /\ call.fn # "none" =>
       /\ IsFinite(call.result)
       /\ \A y \in call.divs : Gt0(y)
  /\ call.fn = "paceToSpeed" /\ call.args = <<Int2Num(4)>> =>
       call.result = Int2Num(15)
  /\ call.fn = "speedToPace" /\ call.args = <<Int2Num(10)>> =>
       call.result = Int2Num(6)
  /\ CalledWith("calculateDistance", 6, 30) => call.result = Int2Num(5)
  /\ CalledWith("calculatePaceFromTimeDistance", 50, 10) =>
       call.result = Int2Num(5)
  /\ call.fn = "calculateTime" /\ call.args = <<Rat(9, 2), Int2Num(8)>> =>
       call.result = Int2Num(36)

\* speedToPace(0): the guard returns 0 and nothing is divided
C15_Witness ==
  /\ call.fn = "speedToPace"
  /\ call.args = <<Zero>>
  /\ call.result = Zero
  /\ call.divs = {}

\* C16: speedToPace(paceToSpeed(p)) = p for every p > 0, and
\* paceToSpeed(speedToPace(s)) = s for every s > 0.
C16_RoundTrip ==
  /\ (call.fn = "speedToPace" /\ call.of.fn = "paceToSpeed"
        /\ Gt0(call.of.args[1])) => call.result = call.of.args[1]
  /\ (call.fn = "paceToSpeed" /\ call.of.fn = "speedToPace"
        /\ Gt0(call.of.args[1])) => call.result = call.of.args[1]

\* speedToPace(paceToSpeed(4.5)) = speedToPace(13.33..) = 4.5
C16_Witness ==
  /\ call.fn = "speedToPace"
  /\ call.of = [fn |-> "paceToSpeed", args |-> <<Rat(9, 2)>>]
  /\ call.args = <<Rat(40, 3)>>
  /\ call.result = Rat(9, 2)

----------------------------------------------------------------------------
(* Driver of the parsing and formatting functions of the calculator: a     *)
(* function is called on a drawn argument, and then parsePace on the text  *)
(* if the function was formatPace.                                         *)

\* the texts parsePace is called with: those of the tests and others
ParsePaceTexts ==
  { <<"0", "5", ":", "0", "0">>, <<"0", "5", ":", "3", "0">>,
    <<"0", "4", ":", "1", "5">>, <<"0", "6", ":", "4", "5">>,
    <<"1", "0", ":", "1", "0">>, <<"5", ":", "0", "0">>,
    <<"5", ":", "3", "0">>, <<"5", ":", "5", "9">>,
    <<"-", "5", ":", "3", "0">>, <<"5", "a", ":", "3", "0">>,
    <<"i", "n", "v", "a", "l", "i", "d">>, <<"5">>, <<"5", ":", "6", "0">>,
    <<"5", ":", "6", "1">>, <<"5", ":", "-", "1">>, <<>>,
    <<"1", ":", "2", ":", "3">>, <<":", "3", "0">>, <<"5", ":">>,
    <<"5", ":", "a">> }

\* the texts parseTime is called with
ParseTimeTexts ==
  { <<"3", "0", ":", "0", "0">>, <<"4", "5", ":", "3", "0">>,
    <<"2", "2", ":", "1", "5">>, <<"5", "9", ":", "4", "5">>,
    <<"3", "0", ":", "7", "5">>, <<"0", "1", ":", "3", "0", ":", "0", "0">>,
    <<"0", "2", ":", "0", "5", ":", "3", "0">>,
    <<"0", "3", ":", "0", "0", ":", "1", "5">>,
    <<"1", ":", "3", "0", ":", "0", "0">>,
    <<"i", "n", "v", "a", "l", "i", "d">>, <<"3", "0">>, <<>>,
    <<"1", ":", "2", ":", "3", ":", "4">>, <<"a", ":", "3", "0">>,
    <<"1", ":", ":", "3">>, <<"1", ":", "a", ":", "3">> }

\* the whole minutes the values formatted go up to (and 100, 125)
MaxMinutes == 11

\* the values of whole minutes and whole seconds
WholeSecondValues ==
  { Rat(60 * m + s, 60) : m \in (0..MaxMinutes) \cup {100, 125}, s \in 0..59 }

\* the values formatPace and formatTime are called with: whole seconds, the
\* values of the tests, and values whose seconds round to 60
FormatValues ==
  WholeSecondValues
    \cup { Rat(1017, 100), Int2Num(30), Rat(91, 2), Rat(89, 4), Rat(239, 4),
           Int2Num(90), Rat(251, 2), Rat(721, 4), Int2Num(6000),
           Rat(5999, 1000), Rat(59999, 1000), Rat(119999, 1000),
           Rat(9991, 1000), Rat(5005, 1000) }

CallParse(fn, text) ==
  /\ call.fn = "none"
  /\ \/ /\ fn = "parsePace" /\ text \in ParsePaceTexts
        /\ Called(fn, <<text>>, Const(parsePace(text)), NoCall)
     \/ /\ fn = "parseTime" /\ text \in ParseTimeTexts
        /\ Called(fn, <<text>>, Const(parseTime(text)), NoCall)
  /\ UNCHANGED <<appVars, rcVars, cvVars, inVars, elVars, shVars>>

CallFormat(fn, minutes) ==
  /\ call.fn = "none"
  /\ \/ /\ fn = "formatPace"
        /\ Called(fn, <<minutes>>, Const(formatPace(minutes)), NoCall)
     \/ /\ fn = "formatTime"
        /\ Called(fn, <<minutes>>, Const(formatTime(minutes)), NoCall)
  /\ UNCHANGED <<appVars, rcVars, cvVars, inVars, elVars, shVars>>

\* parsePace called on the text formatPace returned
ParseFormatted ==
  /\ call.fn = "formatPace"
  /\ Called("parsePace", <<call.result>>, Const(parsePace(call.result)),
            [fn |-> call.fn, args |-> call.args])
  /\ UNCHANGED <<appVars, rcVars, cvVars, inVars, elVars, shVars>>

TextNext ==
  \/ \E fn \in {"parsePace", "parseTime"},
        text \in ParsePaceTexts \cup ParseTimeTexts : CallParse(fn, text)
  \/ \E fn \in {"formatPace", "formatTime"}, minutes \in FormatValues :
       CallFormat(fn, minutes)
  \/ ParseFormatted

SpecText == Init /\ [][TextNext]_vars

----------------------------------------------------------------------------
(* Properties of parsing and formatting (checked under SpecText) *)

\* the positions of the colons of a text, with 0 and Len + 1 as the ends
Cuts(text) ==
  {0, Len(text) + 1} \cup { i \in 1..Len(text) : text[i] = ":" }

\* the number of parts the colons cut the text into, and the k-th part
PartCount(text) == Cardinality(Cuts(text)) - 1
NthCut(text, k) ==
  CHOOSE i \in Cuts(text) : Cardinality({ j \in Cuts(text) : j < i }) = k
Part(text, k) ==
  SubSeq(text, NthCut(text, k - 1) + 1, NthCut(text, k) - 1)

\* an optional sign and at least one digit at the start of the text
IntegerParseable(text) ==
  LET rest == IF text # <<>> /\ Head(text) \in {"-", "+"} THEN Tail(text)
              ELSE text
  IN  rest # <<>> /\ IsDigit(Head(rest))

\* x < y for finite numbers that carry no conversion constant
Less(x, y) == x.n * y.d < y.n * x.d

ParsedPace(text, value) ==
  call.fn = "parsePace" /\ call.args = <<text>> /\ call.result = value

\* C17: parsePace returns minutes + seconds/60 for a text that the colons cut
\* into exactly two integer-parseable parts with 0 <= seconds < 60, and 0
\* for every other text: another number of parts, a part that is no number,
\* seconds >= 60 or < 0, the empty text.
C17_ParsePace ==
  call.fn = "parsePace" =>
    LET text == call.args[1]
        valid ==
          /\ PartCount(text) = 2
          /\ IntegerParseable(Part(text, 1))
          /\ IntegerParseable(Part(text, 2))
          /\ ~Less(parseInt(Part(text, 2)), Zero)
          /\ Less(parseInt(Part(text, 2)), Sixty)
    IN  /\ valid =>
             call.result = Add(parseInt(Part(text, 1)),
                               Div(parseInt(Part(text, 2)), Sixty))
        /\ ~valid => call.result = Zero
        /\ text = <<"0", "5", ":", "3", "0">> => call.result = Rat(11, 2)
        /\ text = <<"1", "0", ":", "1", "0">> => call.result = Rat(61, 6)
        /\ text = <<"5", ":", "5", "9">> => call.result = Rat(359, 60)
        /\ text \in { <<"5", ":", "6", "0">>, <<"5", ":", "-", "1">>, <<"5">>,
                      <<"i", "n", "v", "a", "l", "i", "d">>, <<>>,
                      <<"1", ":", "2", ":", "3">> } =>
             call.result = Zero

\* 5:59, the last valid second, is parsed to 5 + 59/60
C17_Witness == ParsedPace(<<"5", ":", "5", "9">>, Rat(359, 60))

\* C18: parseTime returns minutes + seconds/60 for a text of two parts and
\* hours * 60 + minutes + seconds/60 for a text of three parts, and 0 for
\* any other number of parts and when a part is no number: 01:30:00 gives
\* 90, 1:2:3:4 gives 0 and the empty text gives 0.
C18_ParseTime ==
  call.fn = "parseTime" =>
    LET text == call.args[1]
        count == PartCount(text)
        numeric == \A k \in 1..count : IntegerParseable(Part(text, k))
        part(k) == parseInt(Part(text, k))
    IN  /\ (count = 2 /\ numeric) =>
             call.result = Add(part(1), Div(part(2), Sixty))
        /\ (count = 3 /\ numeric) =>
             call.result = Add(Add(Mul(part(1), Sixty), part(2)),
                               Div(part(3), Sixty))
        /\ (count \notin {2, 3} \/ ~numeric) => call.result = Zero
        /\ text = <<"0", "1", ":", "3", "0", ":", "0", "0">> =>
             call.result = Int2Num(90)
        /\ text = <<"0", "2", ":", "0", "5", ":", "3", "0">> =>
             call.result = Rat(251, 2)
        /\ text = <<"4", "5", ":", "3", "0">> => call.result = Rat(91, 2)
        /\ text \in { <<"1", ":", "2", ":", "3", ":", "4">>, <<>>,
            <<"3", "0">>,
                      <<"i", "n", "v", "a", "l", "i", "d">> } =>
             call.result = Zero

\* 01:30:00 is parsed to 90 minutes
C18_Witness ==
  /\ call.fn = "parseTime"
  /\ call.args = <<<<"0", "1", ":", "3", "0", ":", "0", "0">>>>
  /\ call.result = Int2Num(90)
  /\ PartCount(call.args[1]) = 3


\* the value is a whole number of seconds and not negative
WholeSeconds(v) == v.n >= 0 /\ (60 * v.n) % v.d = 0

\* C19: parsePace(formatPace(v)) = v for every v >= 0 that is a whole number
\* of minutes plus a whole number of seconds from 0 to 59.
C19_FormatParsePace ==
  (call.fn = "parsePace" /\ call.of.fn = "formatPace"
     /\ WholeSeconds(call.of.args[1])) => call.result = call.of.args[1]

\* 125 minutes 59 seconds: formatted as 125:59 and parsed back
C19_Witness ==
  /\ call.fn = "parsePace"
  /\ call.of = [fn |-> "formatPace", args |-> <<Rat(7559, 60)>>]
  /\ call.args = <<<<"1", "2", "5", ":", "5", "9">>>>
  /\ call.result = Rat(7559, 60)

\* the part is the decimal numeral of value, padded with zeros to two digits
Padded(part, value) ==
  /\ Len(part) >= 2
  /\ \A i \in 1..Len(part) : IsDigit(part[i])
  /\ Len(part) > 2 => part[1] # "0"
  /\ DigitsToInt(part) = value

\* m = floor(v), and r = round(f), a half going up
IsFloor(m, v) == ~Less(v, Int2Num(m)) /\ Less(v, Int2Num(m + 1))
IsRound(r, f) == IsFloor(r, Add(f, Rat(1, 2)))

\* (v - floor(v)) * 60 for v >= 0
FractionSeconds(v) == Mul(Rat(v.n % v.d, v.d), Sixty)

Formatted(fn, v, text) ==
  call.fn = fn /\ call.args = <<v>> /\ call.result = text

\* C20: for minutes >= 0, formatPace renders floor(minutes) and
\* round(fractional minutes * 60), and formatTime renders three groups,
\* floor(minutes / 60), floor(minutes mod 60) and round(fractional minutes *
\* 60), each padded with zeros to two digits; neither carries: seconds that
\* round to 60 are rendered as 60 and the minutes and hours are those of the
\* floor.
C20_Format ==
  /\ call.fn = "formatPace" =>
       LET v == call.args[1]
           text == call.result
       IN  /\ PartCount(text) = 2
           /\ \E m \in {DigitsToInt(Part(text, 1))} :
                Padded(Part(text, 1), m) /\ IsFloor(m, v)
           /\ \E r \in {DigitsToInt(Part(text, 2))} :
                Padded(Part(text, 2), r) /\ IsRound(r, FractionSeconds(v))
  /\ call.fn = "formatTime" =>
       LET v == call.args[1]
           text == call.result
       IN  /\ PartCount(text) = 3
           /\ \E h \in {DigitsToInt(Part(text, 1))},
                 m \in {DigitsToInt(Part(text, 2))} :
                /\ Padded(Part(text, 1), h)
                /\ Padded(Part(text, 2), m)
                /\ m < 60
                /\ IsFloor(60 * h + m, v)
           /\ \E r \in {DigitsToInt(Part(text, 3))} :
                Padded(Part(text, 3), r) /\ IsRound(r, FractionSeconds(v))
  /\ call.fn = "formatPace" =>
       /\ call.args = <<Rat(1017, 100)>> =>
            call.result = <<"1", "0", ":", "1", "0">>
       /\ call.args = <<Rat(5999, 1000)>> =>
            call.result = <<"0", "5", ":", "6", "0">>
       /\ call.args = <<Rat(9991, 1000)>> =>
            call.result = <<"0", "9", ":", "5", "9">>
  /\ call.fn = "formatTime" =>
       /\ call.args = <<Rat(91, 2)>> =>
            call.result = <<"0", "0", ":", "4", "5", ":", "3", "0">>
       /\ call.args = <<Rat(251, 2)>> =>
            call.result = <<"0", "2", ":", "0", "5", ":", "3", "0">>
       /\ call.args = <<Rat(59999, 1000)>> =>
            call.result = <<"0", "0", ":", "5", "9", ":", "6", "0">>
       /\ call.args = <<Rat(119999, 1000)>> =>
            call.result = <<"0", "1", ":", "5", "9", ":", "6", "0">>
       /\ call.args = <<Int2Num(6000)>> =>
            call.result = <<"1", "0", "0", ":", "0", "0", ":", "0", "0">>

\* 59.999 minutes: the seconds round to 60 and are rendered as 60, under 59
\* minutes and 0 hours
C20_Witness ==
  Formatted("formatTime", Rat(59999, 1000),
            <<"0", "0", ":", "5", "9", ":", "6", "0">>)

-----------------------------------------------------------------------------
(* Track-lap mode.                                                         *)

\* the 400 m lap in the unit system: 0.4 km, 0.248548 miles
LapDistance(us) == IF us = "metric" THEN Rat(2, 5) ELSE TRACK_MILES

\* C24: while track-lap mode is on, distance is the 400 m lap of the current
\* unit system (0.4 in metric, 0.248548 in imperial) in every state, after
\* enabling, after every edit and after every unit-system toggle, and
\* distance is never the derivation selector: enabling the mode with the
\* selector distance makes it pace-speed, and the distance row is not shown
\* as one that can be edited.
C24_TrackLapDistance ==
  isTrackLap =>
    /\ data.distance = LapDistance(unitSystem)
    /\ calculatedField # "distance"
    /\ "distance" \in ui.disabled

\* track-lap mode in imperial units, after a conversion and an accepted edit
C24_Witness ==
  /\ isTrackLap
  /\ unitSystem = "imperial"
  /\ conversions >= 1
  /\ lastEvent.kind = "input"
  /\ edits >= 1
  /\ data.distance = TRACK_MILES

\* C25: a change of the track-lap checkbox leaves pace and speed as they
\* were; switching the mode on sets time to pace times the lap distance,
\* and switching it off leaves the whole tuple as it was.
C25_TrackLapToggle ==
  [][lastEvent'.field = "track-lap-toggle" =>
       /\ data'.pace = data.pace
       /\ data'.speed = data.speed
       /\ lastEvent'.checked =>
            data'.time = Mul(data.pace, LapDistance(unitSystem))
       /\ ~lastEvent'.checked => data' = data]_vars

\* the mode switched on at a pace of 4:30: the time is 1.8 minutes
C25_Witness ==
  /\ lastEvent = Event("change", "track-lap-toggle", TRUE)
  /\ isTrackLap
  /\ data.pace = Rat(9, 2)
  /\ data.time = Rat(9, 5)

\* C26: in every reachable state of the application, time = pace * distance.
C26_Consistent == data.time = Mul(data.pace, data.distance)

\* the switch to imperial units in track-lap mode: the time is still that of
\* the metric lap, the distance is the imperial lap
C26_Inconsistent ==
  /\ isTrackLap
  /\ lastEvent = Event("change", "imperial-toggle", TRUE)
  /\ data.distance = TRACK_MILES
  /\ data.time # Mul(data.pace, data.distance)

-----------------------------------------------------------------------------
(* inputHandler.ts: a text field under its controller. The element holds   *)
(* the text and the selection; the handlers of the controller are          *)
(* functions of the element.                                               *)

Min(a, b) == IF a < b THEN a ELSE b

\* HTMLInputElement.select()
select(e) == [e EXCEPT !.selectionStart = 0, !.selectionEnd = Len(e.value)]

\* HTMLInputElement.setSelectionRange(start, end): an offset beyond the text
\* is the length of the text
setSelectionRange(e, start, end) ==
  [e EXCEPT !.selectionStart = Min(start, Len(e.value)),
            !.selectionEnd = Min(end, Len(e.value))]

\* an assignment to HTMLInputElement.value: a text that differs from the
\* current one leaves the caret at its end
assignValue(e, text) ==
  IF text = e.value THEN e
  ELSE [e EXCEPT !.value = text, !.selectionStart = Len(text),
                 !.selectionEnd = Len(text)]

\* SegmentedTimeInput.handleInput on the element
SegmentedOnInput(e, isTime) ==
  assignValue(e, SegmentedHandleInput(e.value, isTime))

\* NumericInput.handleInput on the element
NumericOnInput(e, maxDecimals) ==
  LET cursorPos == e.selectionStart
      value     == NumericHandleInput(e.value, maxDecimals)
  IN  IF e.value # value
        THEN setSelectionRange([e EXCEPT !.value = value],
                               Min(cursorPos, Len(value)),
                               Min(cursorPos, Len(value)))
        ELSE e

\* this.input.dispatchEvent(new Event('input')) in SegmentedTimeInput: the
\* listener the controller has registered on the field runs
dispatchEvent(e, isTime) ==
  [SegmentedOnInput(e, isTime) EXCEPT !.notified = e.notified + 1]

getDigitPosition(e, cursorPos) ==
  Len(OnlyDigits(substring(e.value, 0, cursorPos)))

getFormattedPosition(digitPos, isTime) ==
  IF isTime
    THEN IF digitPos <= 2 THEN digitPos
         ELSE IF digitPos <= 4 THEN digitPos + 1
         ELSE digitPos + 2
    ELSE IF digitPos <= 2 THEN digitPos
         ELSE digitPos + 1

\* clearInput with zeros as the default of both masks
clearInputZeros(e, isTime) ==
  LET default == IF isTime THEN <<"0", "0", ":", "0", "0", ":", "0", "0">>
                 ELSE <<"0", "0", ":", "0", "0">>
      cleared == [e EXCEPT !.value = default]
  IN  dispatchEvent(setSelectionRange(cleared, 0, 0), isTime)

clearInput(e, isTime) ==
  LET default == IF isTime THEN <<"0", "0", ":", "0", "0", ":", "0", "0">>
                 ELSE <<"0", "5", ":", "0", "0">>
      cleared == [e EXCEPT !.value = default]
  IN  dispatchEvent(setSelectionRange(cleared, 0, 0), isTime)

\* handleDigitInput inserting the digit at the caret, the digits after it
\* moving one place on
handleDigitInputInsert(e, digit, isTime) ==
  LET currentValue == e.value
      cursorPos    == e.selectionStart
  IN  IF e.selectionStart # e.selectionEnd
        THEN LET formatted == formatNumbers(<<digit>>, isTime)
             IN  dispatchEvent(
                   setSelectionRange([e EXCEPT !.value = formatted], 1, 1),
                   isTime)
        ELSE LET digitPosition == getDigitPosition(e, cursorPos)
                 numbersOnly   == OnlyDigits(currentValue)
                 newNumbers    ==
                   substring(numbersOnly, 0, digitPosition) \o <<digit>>
                     \o substring(numbersOnly, digitPosition,
                                  Len(numbersOnly))
                 formatted     == formatNumbers(newNumbers, isTime)
                 nextDigitPos  ==
                   Min(digitPosition + 1, IF isTime THEN 6 ELSE 4)
                 newCursorPos  == getFormattedPosition(nextDigitPos, isTime)
             IN  dispatchEvent(
                   setSelectionRange([e EXCEPT !.value = formatted],
                                     newCursorPos, newCursorPos),
                   isTime)

handleDigitInput(e, digit, isTime) ==
  LET currentValue == e.value
      cursorPos    == e.selectionStart
  IN  IF e.selectionStart # e.selectionEnd
        THEN LET formatted == formatNumbers(<<digit>>, isTime)
             IN  dispatchEvent(
                   setSelectionRange([e EXCEPT !.value = formatted], 1, 1),
                   isTime)
        ELSE LET digitPosition == getDigitPosition(e, cursorPos)
                 numbersOnly   == OnlyDigits(currentValue)
                 newNumbers    ==
                   substring(numbersOnly, 0, digitPosition) \o <<digit>>
                     \o substring(numbersOnly, digitPosition + 1,
                                  Len(numbersOnly))
                 formatted     == formatNumbers(newNumbers, isTime)
                 nextDigitPos  ==
                   Min(digitPosition + 1, IF isTime THEN 6 ELSE 4)
                 newCursorPos  == getFormattedPosition(nextDigitPos, isTime)
             IN  dispatchEvent(
                   setSelectionRange([e EXCEPT !.value = formatted],
                                     newCursorPos, newCursorPos),
                   isTime)

\* handleBackspace removing the digit before the caret, the digits before it
\* moving one place on
handleBackspaceShift(e, isTime) ==
  LET currentValue == e.value
      cursorPos    == e.selectionStart
  IN  IF e.selectionStart # e.selectionEnd THEN clearInput(e, isTime)
      ELSE LET numbersOnly   == OnlyDigits(currentValue)
               digitPosition == getDigitPosition(e, cursorPos)
           IN  IF digitPosition > 0
                 THEN LET newNumbers ==
                            substring(numbersOnly, 0, digitPosition - 1)
                              \o substring(numbersOnly, digitPosition,
                                           Len(numbersOnly))
                          formatted == formatNumbers(newNumbers, isTime)
                          newCursorPos ==
                            getFormattedPosition(digitPosition - 1, isTime)
                      IN  dispatchEvent(
                            setSelectionRange(
                              [e EXCEPT !.value = formatted],
                              newCursorPos, newCursorPos),
                            isTime)
                 ELSE e

handleBackspace(e, isTime) ==
  LET currentValue == e.value
      cursorPos    == e.selectionStart
  IN  IF e.selectionStart # e.selectionEnd THEN clearInput(e, isTime)
      ELSE LET numbersOnly   == OnlyDigits(currentValue)
               digitPosition == getDigitPosition(e, cursorPos)
           IN  IF digitPosition > 0
                 THEN LET newNumbers ==
                            substring(numbersOnly, 0, digitPosition - 1)
                              \o <<"0">>
                              \o substring(numbersOnly, digitPosition,
                                           Len(numbersOnly))
                          formatted == formatNumbers(newNumbers, isTime)
                          newCursorPos ==
                            getFormattedPosition(digitPosition - 1, isTime)
                      IN  dispatchEvent(
                            setSelectionRange(
                              [e EXCEPT !.value = formatted],
                              newCursorPos, newCursorPos),
                            isTime)
                 ELSE e

NavigationKeys == {"ArrowLeft", "ArrowRight", "Home", "End"}

\* what the browser does with a navigation key the handler lets through
CursorMovement(e, key) ==
  LET collapsed == e.selectionStart = e.selectionEnd
      caret ==
        CASE key = "ArrowLeft" ->
               IF collapsed /\ e.selectionStart > 0
                 THEN e.selectionStart - 1 ELSE e.selectionStart
          [] key = "ArrowRight" ->
               IF collapsed /\ e.selectionEnd < Len(e.value)
                 THEN e.selectionEnd + 1 ELSE e.selectionEnd
          [] key = "Home" -> 0
          [] key = "End" -> Len(e.value)
  IN  setSelectionRange(e, caret, caret)

\* handleKeydown without the suppression of the keys it does not handle
handleKeydownLetThrough(e, key, isTime) ==
  LET received == [e EXCEPT !.key = key, !.notified = 0,
                            !.prevented = FALSE, !.raw = <<>>]
      suppressed == [received EXCEPT !.prevented = TRUE]
  IN  IF IsDigit(key) THEN handleDigitInput(suppressed, key, isTime)
      ELSE IF key = "Backspace" THEN handleBackspace(suppressed, isTime)
      ELSE IF key = "Delete" THEN clearInput(suppressed, isTime)
      ELSE IF key \in NavigationKeys THEN CursorMovement(received, key)
      ELSE received

\* SegmentedTimeInput.handleKeydown, and the default action of a key it does
\* not suppress
handleKeydown(e, key, isTime) ==
  LET received == [e EXCEPT !.key = key, !.notified = 0,
                            !.prevented = FALSE, !.raw = <<>>]
      suppressed == [received EXCEPT !.prevented = TRUE]
  IN  IF IsDigit(key) THEN handleDigitInput(suppressed, key, isTime)
      ELSE IF key = "Backspace" THEN handleBackspace(suppressed, isTime)
      ELSE IF key = "Delete" THEN clearInput(suppressed, isTime)
      ELSE IF key = "Tab" THEN received
      ELSE IF key \in NavigationKeys THEN CursorMovement(received, key)
      ELSE suppressed

-----------------------------------------------------------------------------
(* A field under its controller: the events the field receives.            *)

Controllers ==
  { SegmentedTimeInput(FALSE), SegmentedTimeInput(TRUE),
    NumericInput(2), NumericInput(0) }

IsSegmented(controller) == controller.kind = "SegmentedTimeInput"

\* the text updateUI gives the field of the controller for the default tuple
InitialText(controller) ==
  IF IsSegmented(controller)
    THEN IF controller.isTime
        THEN <<"0", "0", ":", "5", "0", ":", "0", "0">>
            ELSE <<"0", "5", ":", "0", "0">>
    ELSE IF controller.maxDecimals = 2 THEN <<"1", "0", ".", "0", "0">>
        ELSE <<"1", "2", "0">>

\* the number of digits of the mask
MaskDigits(isTime) == IF isTime THEN 6 ELSE 4

\* the text with its selected part replaced by the inserted text, the caret
\* behind what is inserted
ReplaceSelection(e, inserted) ==
  LET newValue == substring(e.value, 0, e.selectionStart) \o inserted
                    \o substring(e.value, e.selectionEnd, Len(e.value))
      caret    == e.selectionStart + Len(inserted)
  IN  [e EXCEPT !.value = newValue, !.selectionStart = caret,
                !.selectionEnd = caret]

\* target.dispatchEvent(new Event('input')) in NumericInput: the listener
\* the controller has registered on the field runs
dispatchInput(e, maxDecimals) ==
  [NumericOnInput(e, maxDecimals) EXCEPT !.notified = e.notified + 1]

\* what the browser does with a key NumericInput lets through: a character
\* replaces the selection, Backspace and Delete remove the selection or the
\* character next to the caret, and the input event follows a change; the
\* navigation keys move the caret; Tab and Enter leave the field as it is
DefaultAction(e, key, maxDecimals) ==
  LET collapsed == e.selectionStart = e.selectionEnd
      before == [e EXCEPT !.selectionStart = e.selectionStart - 1]
      behind == [e EXCEPT !.selectionEnd = e.selectionEnd + 1]
  IN  CASE IsDigit(key) \/ key = "." ->
             NumericOnInput(ReplaceSelection(e, <<key>>), maxDecimals)
        [] key = "Backspace" ->
             IF ~collapsed
               THEN NumericOnInput(ReplaceSelection(e, <<>>), maxDecimals)
             ELSE IF e.selectionStart > 0
               THEN NumericOnInput(ReplaceSelection(before, <<>>),
                                   maxDecimals)
             ELSE e
        [] key = "Delete" ->
             IF ~collapsed
               THEN NumericOnInput(ReplaceSelection(e, <<>>), maxDecimals)
             ELSE IF e.selectionEnd < Len(e.value)
               THEN NumericOnInput(ReplaceSelection(behind, <<>>),
                                   maxDecimals)
             ELSE e
        [] key \in NavigationKeys -> CursorMovement(e, key)
        [] OTHER -> e

\* the keys of the key codes 8, 9, 27, 13, 46 and 35 to 40
AllowedKeys ==
  {"Backspace", "Tab", "Escape", "Enter", "Delete", "End", "Home",
   "ArrowLeft", "ArrowUp", "ArrowRight", "ArrowDown"}

HasSeparator(value) ==
  \E i \in 1..Len(value) : value[i] \in {".", ","}

\* handleKeyDown letting every period through
handleKeyDownAnyPeriod(e, key, maxDecimals) ==
  LET received == [e EXCEPT !.key = key, !.notified = 0,
                            !.prevented = FALSE, !.raw = <<>>]
      suppressed == [received EXCEPT !.prevented = TRUE]
      value == e.value
  IN  IF /\ IsDigit(key)
         /\ e.selectionStart = 0
         /\ e.selectionEnd = Len(value)
        THEN dispatchInput(
               setSelectionRange([suppressed EXCEPT !.value = <<key>>], 1, 1),
               maxDecimals)
      ELSE IF key = "," /\ ~HasSeparator(value)
        THEN dispatchInput(ReplaceSelection(suppressed, <<".">>),
                           maxDecimals)
      ELSE IF IsDigit(key) \/ key \in AllowedKeys \/ key = "."
        THEN DefaultAction(received, key, maxDecimals)
      ELSE suppressed

\* NumericInput.handleKeyDown, for keys pressed without Ctrl, and the
\* default action of the key when the handler does not prevent it
handleKeyDown(e, key, maxDecimals) ==
  LET received == [e EXCEPT !.key = key, !.notified = 0,
                            !.prevented = FALSE, !.raw = <<>>]
      suppressed == [received EXCEPT !.prevented = TRUE]
      value == e.value
  IN  IF /\ IsDigit(key)
         /\ e.selectionStart = 0
         /\ e.selectionEnd = Len(value)
        THEN dispatchInput(
               setSelectionRange([suppressed EXCEPT !.value = <<key>>], 1, 1),
               maxDecimals)
      ELSE IF key = "," /\ ~HasSeparator(value)
        THEN dispatchInput(ReplaceSelection(suppressed, <<".">>),
                           maxDecimals)
      ELSE IF \/ IsDigit(key)
              \/ key \in AllowedKeys
              \/ key = "." /\ ~HasSeparator(value)
        THEN DefaultAction(received, key, maxDecimals)
      ELSE suppressed

\* the longest text the keys are let to type
MaxTextLen == 3

\* the keys the field receives
DigitKeys == {"5", "7"}
NumericKeys ==
  DigitKeys \cup NavigationKeys
    \cup {".", ",", "Backspace", "Delete", "Tab", "a"}
FieldKeys ==
  DigitKeys \cup NavigationKeys
    \cup {"Backspace", "Delete", "Tab", "a", ":", "Enter"}

\* texts a content change (typing, a paste) leaves in the field
SegmentedRawTexts ==
  { <<>>, <<"5">>, <<"7", ":", "5">>, <<"x", "5", "y", "7">>,
      <<"0", "5", ":", "0", "7">>,
          <<"0", "0", ":", "5", "7", ":", "0", "5">>,
              <<"5", "7", "0", "5", "7", "0", "5", "7">> }
NumericRawTexts ==
  { <<>>, <<"a", "b", "c">>, <<"1", ",", "5">>, <<"1", ",", "2", ",", "3">>,
      <<"7", ".">>, <<"7", "2", ".", "5">>,
          <<"1", "2", ".", "4", "5", "6", "7">>, <<"1", "2", "a", ".", "5">>,
    <<".", ".", "5">>, <<"1", ".", "2", ".", "3", "4", "5">> }
FieldRawTexts(controller) ==
  IF IsSegmented(controller) THEN SegmentedRawTexts ELSE NumericRawTexts

\* texts the application assigns to the field: nothing, and a pace of more
\* than 99 minutes
AssignedTexts == { <<>>, <<"5", "7", "5", ":", "0", "7">> }

\* ranges of the text the user selects with the pointer
SelectedRanges == { <<0, 2>>, <<1, 4>>, <<3, 5>> }

FieldInit ==
  /\ AppInit
  /\ RcIdle
  /\ CvIdle
  /\ InIdle
  /\ FnIdle
  /\ ShIdle
  /\ \E controller \in Controllers :
       input = Element(controller, InitialText(controller), "none")

\* the element on the arrival of an event that is no key
Received(e, event) ==
  [e EXCEPT !.key = event, !.prevented = FALSE, !.notified = 0,
            !.fresh = FALSE, !.typed = <<>>, !.raw = <<>>]

\* handleFocus of either controller
FieldFocus ==
  /\ input' = [select(Received(input, "focus")) EXCEPT !.fresh = TRUE]
  /\ UNCHANGED <<appVars, rcVars, cvVars, inVars, fnVars, shVars>>

\* a keydown event on a field with a SegmentedTimeInput
FieldKeydown(key) ==
  /\ IsSegmented(input.controller)
  /\ LET isTime  == input.controller.isTime
         after   == handleKeydown(input, key, isTime)
         inOrder == /\ IsDigit(key)
                    /\ input.fresh
                    /\ Len(input.typed) < MaskDigits(isTime)
     IN  input' = [after EXCEPT
                     !.fresh = inOrder,
                     !.typed = IF inOrder THEN Append(input.typed, key)
                               ELSE <<>>]
  /\ UNCHANGED <<appVars, rcVars, cvVars, inVars, fnVars, shVars>>

\* a keydown event on a field with a NumericInput
FieldKeyDown(key) ==
  /\ ~IsSegmented(input.controller)
  /\ LET after == handleKeyDown(input, key, input.controller.maxDecimals)
     IN  /\ \/ Len(after.value) <= Len(input.value)
            \/ Len(after.value) <= MaxTextLen
         /\ input' = [after EXCEPT !.fresh = FALSE, !.typed = <<>>]
  /\ UNCHANGED <<appVars, rcVars, cvVars, inVars, fnVars, shVars>>

\* the user selects a part of the text
FieldSelect(range) ==
  /\ range[2] <= Len(input.value)
  /\ input' = setSelectionRange(Received(input, "select"),
                                range[1], range[2])
  /\ UNCHANGED <<appVars, rcVars, cvVars, inVars, fnVars, shVars>>

\* an input event: the browser has changed the text to raw, the caret is at
\* its end, and the handleInput of the controller runs
FieldInput(raw) ==
  /\ raw \in FieldRawTexts(input.controller)
  /\ LET received == [Received(input, "input") EXCEPT !.raw = raw]
         changed  == assignValue(received, raw)
         caret    == setSelectionRange(changed, Len(raw), Len(raw))
     IN  input' = IF IsSegmented(input.controller)
                    THEN SegmentedOnInput(caret, input.controller.isTime)
                    ELSE NumericOnInput(caret, input.controller.maxDecimals)
  /\ UNCHANGED <<appVars, rcVars, cvVars, inVars, fnVars, shVars>>

\* the application assigns a text to a field with a SegmentedTimeInput; no
\* event is sent
FieldAssign(text) ==
  /\ IsSegmented(input.controller)
  /\ input' = assignValue(Received(input, "assign"), text)
  /\ UNCHANGED <<appVars, rcVars, cvVars, inVars, fnVars, shVars>>

FieldNext ==
  \/ FieldFocus
  \/ \E key \in FieldKeys : FieldKeydown(key)
  \/ \E range \in SelectedRanges : FieldSelect(range)
  \/ \E raw \in SegmentedRawTexts \cup NumericRawTexts : FieldInput(raw)
  \/ \E text \in AssignedTexts : FieldAssign(text)

SpecField == FieldInit /\ [][FieldNext]_vars

\* a field with a NumericInput: the keys, too
NumericInit ==
  FieldInit /\ ~IsSegmented(input.controller)

NumericNext ==
  \/ FieldFocus
  \/ \E key \in NumericKeys : FieldKeyDown(key)
  \/ \E range \in SelectedRanges : FieldSelect(range)
  \/ \E raw \in NumericRawTexts : FieldInput(raw)

SpecNumeric == NumericInit /\ [][NumericNext]_vars

-----------------------------------------------------------------------------
(* SegmentedTimeInput: digit keys and Backspace.                           *)

DigitsOf(text) == SelectSeq(text, IsDigit)

\* the number of digits of the text before the offset
DigitsBefore(text, offset) == Len(DigitsOf(SubSeq(text, 1, offset)))

Collapsed(e) == e.selectionStart = e.selectionEnd

WholeSelected(e) == e.selectionStart = 0 /\ e.selectionEnd = Len(e.value)

CaretAt(e, offset) == e.selectionStart = offset /\ e.selectionEnd = offset

\* after is before with digit at the index (from 0) and nothing else changed
Overwritten(before, after, index, digit) ==
  /\ Len(after) = Len(before)
  /\ \A i \in 1..Len(before) :
       after[i] = IF i = index + 1 THEN digit ELSE before[i]

\* a step in which a field with a SegmentedTimeInput that shows a text of the
\* shape of its mask receives a digit key
DigitKeyStep ==
  /\ IsSegmented(input.controller)
  /\ MaskShaped(input.value, input.controller.isTime)
  /\ IsDigit(input'.key)

\* C21: with the mask MM:SS, the digit 5 typed on a field that is selected
\* as a whole gives the display 05:00, the caret after the first digit.
C21_TypeFive ==
  [][(/\ DigitKeyStep
      /\ ~input.controller.isTime
      /\ WholeSelected(input)
      /\ input'.key = "5") =>
       /\ input'.value = <<"0", "5", ":", "0", "0">>
       /\ CaretAt(input', 1)]_vars

\* what the code does there: the display is 00:05, the caret at offset 1
C21_Divergence ==
  /\ input.controller = SegmentedTimeInput(FALSE)
  /\ input.fresh
  /\ input.typed = <<"5">>
  /\ input.value = <<"0", "0", ":", "0", "5">>
  /\ CaretAt(input, 1)

\* the field shows the key alone, padded on the left with zeros into the
\* mask, with the caret at offset 1
ResetTo(e, key) ==
  /\ DigitsOf(e.value) =
       [i \in 1..MaskDigits(e.controller.isTime) |->
          IF i = MaskDigits(e.controller.isTime) THEN key ELSE "0"]
  /\ MaskShaped(e.value, e.controller.isTime)
  /\ CaretAt(e, 1)

\* C22: a digit key resets the field (the display becomes that digit padded
\* on the left with zeros into the mask, the caret at offset 1) if and only
\* if the whole field is selected; with a collapsed caret or a selection of
\* a part of the field it overwrites the digit at the caret.
C22_ResetIffWholeSelected ==
  [][DigitKeyStep =>
       IF WholeSelected(input) THEN ResetTo(input', input'.key)
       ELSE /\ ~ResetTo(input', input'.key)
            /\ LET index == DigitsBefore(input.value, input.selectionStart)
               IN  index < MaskDigits(input.controller.isTime) =>
                     Overwritten(DigitsOf(input.value),
                                 DigitsOf(input'.value), index,
                                 input'.key)]_vars

\* the digits in the order of typing, separated as the mask separates them
InTypingOrder(typed) ==
  IF Len(typed) = 4
    THEN <<typed[1], typed[2], ":", typed[3], typed[4]>>
    ELSE <<typed[1], typed[2], ":", typed[3], typed[4], ":",
           typed[5], typed[6]>>

\* C27: as many digits as the mask holds, typed one after another into a
\* field that has just received the focus, with no other event in between,
\* leave the display showing the typed digits in the order of typing.
C27_TypedInOrder ==
  (/\ IsSegmented(input.controller)
   /\ input.fresh
   /\ Len(input.typed) = MaskDigits(input.controller.isTime)) =>
    input.value = InTypingOrder(input.typed)

\* what the code does: 5, 7, 5, 7 typed into the focused MM:SS field show
\* 07:57
C27_Divergence ==
  /\ input.controller = SegmentedTimeInput(FALSE)
  /\ input.fresh
  /\ input.typed = <<"5", "7", "5", "7">>
  /\ input.value = <<"0", "7", ":", "5", "7">>

\* C28: every text SegmentedTimeInput writes to its field, after any
\* sequence of digit keys, Backspace, Delete and content changes, from any
\* text of the field, has the shape of the mask: two digits, ':', two digits
\* for MM:SS, and two digits, ':', two digits, ':', two digits for HH:MM:SS.
C28_MaskShape ==
  (/\ IsSegmented(input.controller)
   /\ input.key = "input" \/ input.notified > 0) =>
    MaskShaped(input.value, input.controller.isTime)

\* a digit key on the assigned text 575:07, which has five digits, with the
\* caret at its end: the controller has written 57:50
C28_Witness ==
  /\ input.controller = SegmentedTimeInput(FALSE)
  /\ input.key = "5"
  /\ input.notified = 1
  /\ input.value = <<"5", "7", ":", "5", "0">>

\* a step in which the field shows a text of the shape of its mask, the caret
\* is collapsed and the field receives the key
CaretKeyStep(isKey(_)) ==
  /\ IsSegmented(input.controller)
  /\ MaskShaped(input.value, input.controller.isTime)
  /\ Collapsed(input)
  /\ isKey(input'.key)

IsBackspace(key) == key = "Backspace"

C23_NumericNormalized ==
  (input.controller.kind = "NumericInput" /\ input.key = "input") =>
    LET parts == Split(input.value, ".")
    IN  /\ \A i \in 1..Len(input.value) : IsDigitOrPeriod(input.value[i])
        /\ Len(parts) <= 2
        /\ Len(parts) = 2 => Len(parts[2]) <= input.controller.maxDecimals

\* what the code does with the raw text 1.2.345 and maxDecimals = 2
C23_Divergence ==
  /\ input.controller = NumericInput(2)
  /\ input.key = "input"
  /\ input.value = <<"1", ".", "2", "3", "4", "5">>

-----------------------------------------------------------------------------
(* SegmentedTimeInput: clearing, navigation and suppressed keys, content   *)
(* changes.                                                                *)

\* the default of the mask
ModeDefault(isTime) ==
  IF isTime THEN <<"0", "0", ":", "0", "0", ":", "0", "0">>
  ELSE <<"0", "5", ":", "0", "0">>

\* C31: Backspace with a selection that is not empty, and Delete with any
\* caret or selection, set the display to the default of the mask (00:00:00
\* for the hour mask, 05:00 for the minute mask), put the caret at offset 0
\* and send one change notification.
C31_Clear ==
  [][(/\ IsSegmented(input.controller)
      /\ \/ input'.key = "Delete"
         \/ input'.key = "Backspace" /\ ~Collapsed(input)) =>
       /\ input'.value = ModeDefault(input.controller.isTime)
       /\ CaretAt(input', 0)
       /\ input'.notified = 1]_vars

\* the minute mask cleared by Delete
C31_Witness ==
  /\ input.controller = SegmentedTimeInput(FALSE)
  /\ input.key = "Delete"
  /\ input.value = <<"0", "5", ":", "0", "0">>
  /\ CaretAt(input, 0)
  /\ input.notified = 1

HandledKeys == {"Backspace", "Delete"}
PassedKeys == NavigationKeys \cup {"Tab"}

Zeros(k) == [i \in 1..k |-> "0"]

\* the digits padded on the left with zeros to the width
PaddedLeft(digits, width) ==
  IF Len(digits) >= width THEN digits
  ELSE Zeros(width - Len(digits)) \o digits

\* the digits in groups of two, separated by ':'
RECURSIVE Grouped(_)
Grouped(digits) ==
  IF Len(digits) <= 2 THEN digits
  ELSE SubSeq(digits, 1, 2) \o <<":">>
         \o Grouped(SubSeq(digits, 3, Len(digits)))

\* a state after a content change of a field with a SegmentedTimeInput
AfterContentChange ==
  IsSegmented(input.controller) /\ input.key = "input"

\* C36 as claimed: on a content change the text of the field is replaced by
\* its digits, padded on the left with zeros to the width of the mask and
\* separated with ':', and normalizing the result again changes nothing.
C36_Original ==
  AfterContentChange =>
    LET width == MaskDigits(input.controller.isTime)
    IN  /\ input.value = Grouped(PaddedLeft(DigitsOf(input.raw), width))
        /\ input.value = Grouped(PaddedLeft(DigitsOf(input.value), width))

\* C36 as amended: on a content change the text of the field is replaced by
\* its digits, padded on the left with zeros to the width of the mask, or
\* cut to their first 4 or 6 when there are more, and separated with ':';
\* the field is left as it is when that is the text it has, and normalizing
\* the result again changes nothing.
C36_Normalized ==
  AfterContentChange =>
    LET width == MaskDigits(input.controller.isTime)
        Normal(text) ==
          Grouped(SubSeq(PaddedLeft(DigitsOf(text), width), 1, width))
    IN  /\ input.value = Normal(input.raw)
        /\ input.value = Normal(input.value)
        /\ input.raw = Normal(input.raw) =>
             input.value = input.raw /\ CaretAt(input, Len(input.raw))

\* the text x5y7 pasted into the field with the hour mask
C36_Witness ==
  /\ input.controller = SegmentedTimeInput(TRUE)
  /\ input.key = "input"
  /\ input.raw = <<"x", "5", "y", "7">>
  /\ input.value = <<"0", "0", ":", "0", "0", ":", "5", "7">>


\* ---------------------------------------------------------------------
\* The listeners of the time field across track-lap toggles
\* ---------------------------------------------------------------------

\* C33: in every state, whatever track-lap toggles came before, the time
\* field has exactly one controller, the NumericInput with 0 decimal places
\* when track-lap mode is on and the SegmentedTimeInput with the hour mask
\* otherwise, and exactly one input listener of the application; an accepted
\* edit of the time is one update of the tuple.
C33_OneControllerOneListener ==
  /\ SelectSeq(listeners.time, IsController)
       = <<IF isTrackLap THEN NumericInput(0) ELSE SegmentedTimeInput(TRUE)>>
  /\ Len(SelectSeq(listeners.time, IsAppListener)) = 1
  /\ (dispatch.field = "time" /\ dispatch.updates # 0) =>
       dispatch.updates = 1

\* an edit of the time accepted in track-lap mode after the mode was
\* switched on, off and on again is not distinguished by the state from one
\* after a single toggle; the edit to 72.5 seconds, accepted in track-lap
\* mode
C33_Witness ==
  /\ isTrackLap
  /\ lastEvent = Event("input", "time", FALSE)
  /\ dispatch.field = "time"
  /\ dispatch.raw = <<"7", "2", ".", "5">>
  /\ dispatch.controllers = <<NumericInput(0)>>
  /\ dispatch.updates = 1


----------------------------------------------------------------------------
(* DynamicSlider: a range input from 0 to 100 in steps of 0.1 mapped onto   *)
(* the ranges of a configuration                                           *)

Neg(x) == [x EXCEPT !.n = -x.n]
Sub(x, y) == Add(x, Neg(y))

\* x <= y as JavaScript evaluates it (false on NaN), for numbers that carry
\* no conversion constant
Leq(x, y) ==
  /\ ~isNaN(x)
  /\ ~isNaN(y)
  /\ IF x.d = 0 THEN x.n < 0 \/ (y.d = 0 /\ y.n > 0)
     ELSE IF y.d = 0 THEN y.n > 0
     ELSE x.n * y.d <= y.n * x.d

\* Math.max and Math.min: NaN when an argument is NaN
MathMax(x, y) ==
  IF isNaN(x) \/ isNaN(y) THEN NaN ELSE IF Leq(x, y) THEN y ELSE x
MathMin(x, y) ==
  IF isNaN(x) \/ isNaN(y) THEN NaN ELSE IF Leq(x, y) THEN x ELSE y

SliderRange(min, max, step) == [min |-> min, max |-> max, step |-> step]

\* the time configuration, the same for both unit systems
TimeRanges ==
  <<SliderRange(Int2Num(0), Int2Num(60), Rat(10, 60)),
    SliderRange(Int2Num(60), Int2Num(180), Int2Num(1)),
    SliderRange(Int2Num(180), Int2Num(360), Int2Num(5)),
    SliderRange(Int2Num(360), Int2Num(720), Int2Num(15))>>

\* the configuration of track lap mode: 0 to 300 seconds in minutes
TrackLapRanges == <<SliderRange(Int2Num(0), Rat(300, 60), Rat(1, 60))>>

SliderFields == {"pace", "speed", "distance", "time", "timeTrackLap"}
ConfigNames == SliderFields \X UnitSystems

\* SLIDER_CONFIGS: the ranges of every configuration
SLIDER_CONFIGS ==
  [name \in ConfigNames |->
     CASE name = <<"pace", "metric">> ->
            <<SliderRange(Int2Num(2), Int2Num(4), Rat(1, 60)),
              SliderRange(Int2Num(4), Int2Num(6), Rat(5, 60)),
              SliderRange(Int2Num(6), Int2Num(10), Rat(10, 60)),
              SliderRange(Int2Num(10), Int2Num(15), Rat(15, 60)),
              SliderRange(Int2Num(15), Int2Num(20), Rat(30, 60))>>
       [] name = <<"pace", "imperial">> ->
            <<SliderRange(Rat(32, 10), Rat(64, 10), Rat(1, 60)),
              SliderRange(Rat(64, 10), Rat(97, 10), Rat(5, 60)),
              SliderRange(Rat(97, 10), Rat(161, 10), Rat(10, 60)),
              SliderRange(Rat(161, 10), Rat(241, 10), Rat(15, 60)),
              SliderRange(Rat(241, 10), Rat(322, 10), Rat(30, 60))>>
       [] name = <<"speed", "metric">> ->
            <<SliderRange(Int2Num(3), Int2Num(15), Rat(1, 10)),
              SliderRange(Int2Num(15), Int2Num(25), Rat(5, 10)),
              SliderRange(Int2Num(25), Int2Num(30), Rat(5, 10))>>
       [] name = <<"speed", "imperial">> ->
            <<SliderRange(Rat(19, 10), Rat(93, 10), Rat(1, 10)),
              SliderRange(Rat(93, 10), Rat(155, 10), Rat(3, 10)),
              SliderRange(Rat(155, 10), Rat(186, 10), Rat(3, 10))>>
       [] name = <<"distance", "metric">> ->
            <<SliderRange(Rat(1, 10), Int2Num(5), Rat(1, 10)),
              SliderRange(Int2Num(5), Int2Num(20), Rat(5, 10)),
              SliderRange(Int2Num(20), Int2Num(50), Int2Num(1)),
              SliderRange(Int2Num(50), Int2Num(100), Rat(25, 10))>>
       [] name = <<"distance", "imperial">> ->
            <<SliderRange(Rat(1, 10), Rat(31, 10), Rat(1, 10)),
              SliderRange(Rat(31, 10), Rat(124, 10), Rat(3, 10)),
              SliderRange(Rat(124, 10), Rat(311, 10), Rat(6, 10)),
              SliderRange(Rat(311, 10), Rat(621, 10), Rat(16, 10))>>
       [] name[1] = "time" -> TimeRanges
       [] name[1] = "timeTrackLap" -> TrackLapRanges]

\* the weights by the number of ranges, [1.0] for a number that has none
weightsByRangeCount(count) ==
  CASE count = 3 -> <<Rat(3, 10), Rat(5, 10), Rat(2, 10)>>
    [] count = 4 -> <<Rat(25, 100), Rat(35, 100), Rat(25, 100), Rat(15, 100)>>
    [] count = 5 ->
         <<Rat(25, 100), Rat(35, 100), Rat(25, 100), Rat(10, 100),
           Rat(5, 100)>>
    [] OTHER -> <<Int2Num(1)>>

\* getRangeWeight flooring every weight at a half
getRangeWeightHalf(ranges, rangeIndex) == Rat(1, 2)

\* getRangeWeight: the share of the slider of the range at an index (the
\* indices start at 1 here)
getRangeWeight(ranges, rangeIndex) ==
  IF Len(ranges) = 1 THEN Int2Num(1)
  ELSE LET weights == weightsByRangeCount(Len(ranges))
       IN  IF rangeIndex <= Len(weights) THEN weights[rangeIndex]
           ELSE Rat(5, 100)

totalMin(ranges) == ranges[1].min
totalMax(ranges) == ranges[Len(ranges)].max

\* the loop of valueToPercent from the range at index i on
RECURSIVE valueToPercentFrom(_, _, _, _)
valueToPercentFrom(ranges, value, i, cumulativePercent) ==
  IF i > Len(ranges) THEN Int2Num(100)
  ELSE LET range == ranges[i]
           rangeSize == Sub(range.max, range.min)
           rangePercent == Mul(getRangeWeight(ranges, i), Int2Num(100))
       IN  IF Leq(range.min, value) /\ Leq(value, range.max)
             THEN LET positionInRange ==
                        Div(Sub(value, range.min), rangeSize)
                  IN  Add(cumulativePercent,
                          Mul(positionInRange, rangePercent))
             ELSE valueToPercentFrom(ranges, value, i + 1,
                                     Add(cumulativePercent, rangePercent))

valueToPercent(ranges, value) ==
  LET clamped == MathMax(totalMin(ranges),
                         MathMin(totalMax(ranges), value))
  IN  valueToPercentFrom(ranges, clamped, 1, Zero)

\* the loop of percentToValue from the range at index i on
RECURSIVE percentToValueFrom(_, _, _, _)
percentToValueFrom(ranges, percent, i, cumulativePercent) ==
  IF i > Len(ranges) THEN totalMax(ranges)
  ELSE LET range == ranges[i]
           rangePercent == Mul(getRangeWeight(ranges, i), Int2Num(100))
           upTo == Add(cumulativePercent, rangePercent)
       IN  IF Leq(cumulativePercent, percent) /\ Leq(percent, upTo)
             THEN LET positionInRange ==
                        Div(Sub(percent, cumulativePercent), rangePercent)
                      rawValue ==
                        Add(range.min,
                            Mul(positionInRange,
                                Sub(range.max, range.min)))
                      steppedValue ==
                        Mul(Int2Num(Round(Div(rawValue, range.step))),
                            range.step)
                  IN  MathMax(range.min, MathMin(range.max, steppedValue))
             ELSE percentToValueFrom(ranges, percent, i + 1, upTo)

percentToValue(ranges, percent) ==
  LET clamped == MathMax(Zero, MathMin(Int2Num(100), percent))
  IN  percentToValueFrom(ranges, clamped, 1, Zero)

\* the values given to setValue: the ends and the middle of every range of
\* every configuration, values outside the ranges, and what is no number
RangeValues(ranges) ==
  UNION { { ranges[i].min, ranges[i].max,
            Div(Add(ranges[i].min, ranges[i].max), Int2Num(2)) } :
          i \in DOMAIN ranges }
SliderValues ==
  UNION { RangeValues(SLIDER_CONFIGS[name]) : name \in ConfigNames }
    \cup {Int2Num(-1), Int2Num(1000), NaN, Norm(1, 0, 0, 0, 0),
          Norm(-1, 0, 0, 0, 0)}

\* the values given to updateConfig
CurrentValues == {Zero, Int2Num(5), Int2Num(1000)}

\* the positions the thumb is moved to: every 2.5 from 0 to 100, and the
\* first and the last step of 0.1
SliderPositions ==
  { Rat(5 * k, 2) : k \in 0..40 } \cup {Rat(1, 10), Rat(999, 10)}

\* percentages that are no position of the thumb
OtherPercents ==
  {Int2Num(-5), Rat(2001, 20), Int2Num(150), NaN, Norm(1, 0, 0, 0, 0),
   Norm(-1, 0, 0, 0, 0)}

\* a function with its values computed once
Tabulated(f) == f @@ <<>>

\* valueToPercent and percentToValue of these, tabulated
valueToPercentOf ==
  Tabulated([name \in ConfigNames |->
               Tabulated([value \in SliderValues \cup CurrentValues |->
                            valueToPercent(SLIDER_CONFIGS[name], value)])])
percentToValueOf ==
  Tabulated([name \in ConfigNames |->
               Tabulated([percent \in SliderPositions \cup OtherPercents |->
                            percentToValue(SLIDER_CONFIGS[name], percent)])])

\* the value a range input from 0 to 100 in steps of 0.1 takes when a
\* number is assigned to it: the number limited to the range and rounded to
\* a step, the default 50 for what is no number
Sanitized(percent) ==
  IF isNaN(percent) THEN Int2Num(50)
  ELSE LET limited == MathMax(Zero, MathMin(Int2Num(100), percent))
       IN  Rat(Round(Mul(limited, Int2Num(10))), 10)

\* the slider: its configuration, the value of the range input, isUpdating,
\* and of the last operation its name, its argument, the number computed
\* and the values onChangeCallback was called with
Slider(name, value, op, arg, result, onChange) ==
  [config |-> name, value |-> value, isUpdating |-> FALSE, op |-> op,
   arg |-> arg, result |-> result, onChange |-> onChange]

\* handleSliderChange: the listener of the input event of the range input
handleSliderChange(s) ==
  IF s.isUpdating THEN s
  ELSE LET sliderPercent == s.value
           actualValue == percentToValueOf[s.config][sliderPercent]
       IN  [s EXCEPT !.result = actualValue,
                     !.onChange = Append(s.onChange, actualValue)]

\* setValue: the assignment to the value of the range input dispatches no
\* event
setValue(s, value) ==
  LET updating == [s EXCEPT !.isUpdating = TRUE]
      percent == valueToPercentOf[s.config][value]
      set == [updating EXCEPT !.value = Sanitized(percent), !.arg = value,
                              !.result = percent, !.onChange = <<>>]
  IN  [set EXCEPT !.isUpdating = FALSE]

\* the constructor: the range input is created and the initial value is set
SliderInit ==
  /\ AppInit
  /\ RcIdle
  /\ CvIdle
  /\ InIdle
  /\ FnIdle
  /\ ElIdle
  /\ page = [focus |-> "none"]
  /\ \E name \in ConfigNames, initialValue \in SliderValues :
       slider = setValue(Slider(name, Int2Num(50), "constructor", Zero,
                                Zero, <<>>),
                         initialValue)

SliderUnchanged ==
  UNCHANGED <<appVars, rcVars, cvVars, inVars, fnVars, elVars, page>>

SliderSetValue(value) ==
  /\ slider' = setValue([slider EXCEPT !.op = "setValue"], value)
  /\ SliderUnchanged

\* updateConfig
SliderUpdateConfig(newConfig, currentValue) ==
  /\ slider' = setValue([slider EXCEPT !.config = newConfig,
                                       !.op = "updateConfig"],
                        currentValue)
  /\ SliderUnchanged

\* the thumb is moved: the range input has the value of the position and
\* dispatches an input event
SliderInput(position) ==
  /\ slider' = handleSliderChange([slider EXCEPT !.value = position,
                                                 !.op = "input",
                                                 !.arg = position,
                                                 !.onChange = <<>>])
  /\ SliderUnchanged

\* percentToValue of a percentage that is no position of the thumb
SliderPercentToValue(percent) ==
  /\ slider' = [slider EXCEPT
                  !.op = "percentToValue", !.arg = percent,
                  !.result = percentToValueOf[slider.config][percent],
                  !.onChange = <<>>]
  /\ SliderUnchanged

SliderNext ==
  \/ \E value \in SliderValues : SliderSetValue(value)
  \/ \E newConfig \in ConfigNames, currentValue \in CurrentValues :
       SliderUpdateConfig(newConfig, currentValue)
  \/ \E position \in SliderPositions : SliderInput(position)
  \/ \E percent \in OtherPercents : SliderPercentToValue(percent)

SpecSlider == SliderInit /\ [][SliderNext]_vars

\* C37: every configuration has 1, 3, 4 or 5 ranges; the percentage
\* valueToPercent computes in setValue is within 0 and 100, 0 for a value at
\* or below the total range and 100 for one at or above it; the value
\* percentToValue computes is within the minimum of the first range and the
\* maximum of the last; setValue calls onChangeCallback not once.
C37_SliderBounds ==
  LET ranges == SLIDER_CONFIGS[slider.config]
  IN  /\ Len(ranges) \in {1, 3, 4, 5}
      /\ slider.op \in {"constructor", "setValue", "updateConfig"} =>
           /\ Leq(Zero, slider.result)
           /\ Leq(slider.result, Int2Num(100))
           /\ Leq(slider.arg, totalMin(ranges)) => slider.result = Zero
           /\ Leq(totalMax(ranges), slider.arg) =>
                slider.result = Int2Num(100)
           /\ slider.onChange = <<>>
           /\ ~slider.isUpdating
      /\ slider.op \in {"input", "percentToValue"} =>
           /\ Leq(totalMin(ranges), slider.result)
           /\ Leq(slider.result, totalMax(ranges))

\* setValue of 1000 on the slider of the metric pace, which has 5 ranges
C37_Witness ==
  /\ slider.config = <<"pace", "metric">>
  /\ slider.op = "setValue"
  /\ slider.arg = Int2Num(1000)
  /\ slider.result = Int2Num(100)
  /\ slider.value = Int2Num(100)
  /\ slider.onChange = <<>>


----------------------------------------------------------------------------
(* NumericInput: the decimal separator at keydown                          *)

IsNumeric(controller) == controller.kind = "NumericInput"

Separators(value) ==
  Cardinality({ i \in 1..Len(value) : value[i] \in {".", ","} })

\* the text with the period in the place of its selected part
WithPeriod(e) ==
  substring(e.value, 0, e.selectionStart) \o <<".">>
    \o substring(e.value, e.selectionEnd, Len(e.value))

\* C34: in a field with a NumericInput, the keys '.' and ',' are suppressed
\* and change nothing when the text has a period or a comma; when it has
\* neither, the key ',' is suppressed, the period replaces the selection at
\* the caret and one input event is dispatched, and the key '.' is let
\* through to the same insertion; the text never has two separators.
C34_DecimalSeparator ==
  /\ [](IsNumeric(input.controller) => Separators(input.value) <= 1)
  /\ [][(IsNumeric(input.controller) /\ input'.key \in {".", ","}) =>
          LET maxDecimals == input.controller.maxDecimals
              inserted == NumericHandleInput(WithPeriod(input), maxDecimals)
          IN  IF HasSeparator(input.value)
                THEN /\ input'.prevented
                     /\ input'.notified = 0
                     /\ input'.value = input.value
                     /\ input'.selectionStart = input.selectionStart
                     /\ input'.selectionEnd = input.selectionEnd
                ELSE /\ input'.value = inserted
                     /\ input'.value[input.selectionStart + 1] = "."
                     /\ Separators(input'.value) = 1
                     /\ input'.key = "," =>
                          input'.prevented /\ input'.notified = 1
                     /\ input'.key = "." =>
                          ~input'.prevented /\ input'.notified = 0]_vars

\* the comma typed between the digits of the text 57
C34_Witness ==
  /\ input.controller = NumericInput(2)
  /\ input.key = ","
  /\ input.prevented
  /\ input.notified = 1
  /\ input.value = <<"5", ".", "7">>
  /\ CaretAt(input, 2)


----------------------------------------------------------------------------
(* main.ts: the texts the four inputs show                                 *)

\* a finite number that carries no conversion constant
Plain(x) == x.d > 0 /\ x.km = 0 /\ x.mi = 0 /\ x.lap = 0

\* Number.prototype.toFixed of such a number >= 0; a half goes up
toFixed(x, digits) ==
  LET scaled   == Round(Mul(x, Int2Num(Pow10(digits))))
      whole    == scaled \div Pow10(digits)
      fraction == scaled % Pow10(digits)
  IN  IF digits = 0 THEN toString(whole)
      ELSE toString(whole) \o <<".">> \o padStart(Digits(fraction), digits)

\* the text of an input: its characters, or, for the text a formatting
\* function has given for a number that carries a conversion constant, the
\* function and the number (the characters of such a text are not computed)
Text(text) == [fn |-> "text", of |-> Zero, text |-> text]

\* updateUI: the text written to the input of a field
FormatOf(field, x) ==
  IF Plain(x)
    THEN Text(CASE field = "pace" -> formatPace(x)
                [] field = "time" -> formatTime(x)
                [] OTHER -> toFixed(x, 2))
    ELSE [fn |-> IF field = "pace" THEN "formatPace"
                 ELSE IF field = "time" THEN "formatTime" ELSE "toFixed",
          of |-> x, text |-> <<>>]

\* the inputs activeInput is kept for
TrackedInputs == {"speed", "distance"}

\* updateUI, the part that writes the input values: the speed and the
\* distance are skipped when they are the active input
updateInputs(text, d, activeInput) ==
  [field \in Fields |->
     IF field \in TrackedInputs /\ activeInput = field THEN text[field]
     ELSE FormatOf(field, d[field])]

\* NumericInput.formatValue leaving the text as it is
NumericFormatValueNone(shown, maxDecimals) == shown

\* NumericInput.formatValue; the text toFixed has given for a number is the
\* text toFixed gives for the number parsed from it
NumericFormatValue(shown, maxDecimals) ==
  IF shown.fn # "text" THEN shown
  ELSE LET value == shown.text
           numValue == parseFloat(value)
       IN  IF value # <<>> /\ ~isNaN(numValue)
             THEN Text(toFixed(numValue, maxDecimals))
             ELSE shown

\* the handlers of the blur event of a field: NumericInput.handleBlur on
\* the speed and the distance, and the listener that clears activeInput
Blurred(p) ==
  IF p.focus \in TrackedInputs
    THEN [p EXCEPT !.focus = "none", !.activeInput = "none",
                   !.text[p.focus] = NumericFormatValue(@, 2)]
    ELSE [p EXCEPT !.focus = "none"]

\* the page before the handler of a click runs: the click takes the focus
\* from the input that has it, or leaves it there
Clicked(p, takesFocus) ==
  IF takesFocus /\ p.focus # "none" THEN Blurred(p) ELSE p

\* updateUI run by a click: the fields written no longer keep a text, the
\* active input keeps its own
Updated(p, d) ==
  [p EXCEPT !.text = updateInputs(p.text, d, p.activeInput),
            !.kept = IF p.activeInput = "none" THEN {}
                     ELSE {p.activeInput}]

\* texts typed or pasted into the fields of the page (the distance is
\* focused and blurred, not edited)
PageEdits(field) ==
  CASE field = "pace" -> {<<"4", "3", "0">>}
    [] field = "speed" -> {<<"7", ".">>, <<"0">>}
    [] field = "distance" -> {}
    [] field = "time" -> {<<"0", "0", "0", "0", "0", "0">>}

\* the text the listener of the application finds after the controller of
\* the field, and the number it parses, tabulated
PageSeenOf ==
  Tabulated([field \in Fields |->
               Tabulated([written \in PageEdits(field) |->
                            TextAtApp(bindEvents(initializeDOM)[field],
                                      written)])])
PageParseOf ==
  Tabulated([field \in Fields |->
               Tabulated([written \in PageEdits(field) |->
                            ListenerParse(field, FALSE,
                                          PageSeenOf[field][written])])])

\* the page the constructor leaves: updateUI has written the four inputs,
\* none has the focus; kept are the fields whose text an ignored edit has
\* left, or an update of the others while the field was the active input.
\* The events of the page are not recorded in lastEvent.
PageInit ==
  /\ AppInit
  /\ RcIdle
  /\ CvIdle
  /\ InIdle
  /\ FnIdle
  /\ ElIdle
  /\ slider = [config |-> <<"none", "none">>]
  /\ page = [focus |-> "none", activeInput |-> "none",
             text |-> [field \in Fields |->
                         FormatOf(field, defaultData[field])],
             kept |-> {}]

PageUnchanged == UNCHANGED <<rcVars, cvVars, inVars, fnVars, elVars, slider>>

\* the focus event of an input that is not disabled
PageFocus(field) ==
  /\ page.focus = "none"
  /\ ~inputDisabled(field, calculatedField, FALSE)
  /\ page' = [page EXCEPT
                !.focus = field,
                !.activeInput = IF field \in TrackedInputs THEN field
                                ELSE @]
  /\ UNCHANGED appVars
  /\ PageUnchanged

\* the blur event of the input that has the focus
PageBlur ==
  /\ page.focus # "none"
  /\ page' = Blurred(page)
  /\ UNCHANGED appVars
  /\ PageUnchanged

\* the input event of the input that has the focus, whose text keys or a
\* paste have made written: the controller normalizes it and the listener
\* of the application parses it
PageEdit(field, written) ==
  /\ page.focus = field
  /\ ~inputDisabled(field, calculatedField, FALSE)
  /\ LET seen  == PageSeenOf[field][written]
         value == PageParseOf[field][written]
         ev    == lastEvent
         typed == [page.text EXCEPT ![field] = Text(seen)]
     IN  IF Gt0(value) /\ ~isNaN(value)
           THEN /\ Accept(field, value, ev)
                /\ page' = [page EXCEPT
                              !.text = updateInputs(typed, data',
                                                    page.activeInput),
                              !.kept = {}]
           ELSE /\ Ignore(ev)
                /\ page' = [page EXCEPT !.text = typed,
                                        !.kept = @ \cup {field}]
  /\ PageUnchanged

\* a click on the calc button of a field
PageCalcClick(field, takesFocus) ==
  /\ calculatedField' = toggleCalculatedField(field)
  /\ ui' = updateUI(calculatedField', isTrackLap)
  /\ page' = Updated(Clicked(page, takesFocus), data)
  /\ UNCHANGED <<data, unitSystem, isTrackLap, imperialChecked,
                 trackLapChecked, lastEvent, edits, conversions, listeners>>
  /\ PageUnchanged

\* a change event of the imperial checkbox, which is left at checked
PageToggleUnitSystem(checked, takesFocus) ==
  LET newUnitSystem == IF checked THEN "imperial" ELSE "metric"
      oldUnitSystem == unitSystem
  IN  /\ imperialChecked' = checked
      /\ IF newUnitSystem # oldUnitSystem
           THEN /\ conversions < MaxConversions
                /\ conversions' = conversions + 1
                /\ unitSystem' = newUnitSystem
                /\ ui' = updateUI(calculatedField, isTrackLap)
                /\ data' =
                     [pace |->
                        convertPace(data.pace, oldUnitSystem, newUnitSystem),
                      speed |->
                        convertSpeed(data.speed, oldUnitSystem, newUnitSystem),
                      distance |->
                        convertDistance(data.distance, oldUnitSystem,
                                        newUnitSystem),
                      time |-> data.time]
                /\ page' = Updated(Clicked(page, takesFocus), data')
           ELSE /\ UNCHANGED <<data, unitSystem, conversions, ui>>
                /\ page' = Clicked(page, takesFocus)
      /\ UNCHANGED <<calculatedField, isTrackLap, trackLapChecked, lastEvent,
                     edits, listeners>>
      /\ PageUnchanged

PageNext ==
  \/ \E field \in Fields : PageFocus(field)
  \/ PageBlur
  \/ \E field \in Fields : \E written \in PageEdits(field) :
       PageEdit(field, written)
  \/ \E field \in Fields, takesFocus \in BOOLEAN :
       PageCalcClick(field, takesFocus)
  \/ \E checked \in BOOLEAN, takesFocus \in BOOLEAN :
       PageToggleUnitSystem(checked, takesFocus)

SpecPage == PageInit /\ [][PageNext]_vars

=============================================================================
